---- MODULE Spec2Model ----
(***************************************************************************)
(* Model of the stork GroupVolumeSnapshot controller                       *)
(* (pkg/groupsnapshot/controllers/groupsnapshot.go).                       *)
(*                                                                         *)
(* One GroupVolumeSnapshot resource is reconciled.  The API server holds   *)
(* the persisted object (obj); Reconcile reads it through the manager's    *)
(* informer cache (cache), which may lag behind the server; writes go to   *)
(* the server and are rejected when the written copy's resource version    *)
(* is not the server's (optimistic concurrency).                           *)
(*                                                                         *)
(* Resource versions are increasing numbers that the code only compares    *)
(* with each other (lines 140-167), so the model keeps them relative to    *)
(* the version the cache holds: the cached copy has version 1, the server  *)
(* copy 1 + the number of writes the cache has not seen (at most MaxLag),  *)
(* and a floor below the cached version is kept as 0.                      *)
(***************************************************************************)
EXTENDS Integers, Sequences, FiniteSets, TLC

\* ---------------------------------------------------------------- bounds
NumVolumes == 1
BatchSize == 2
MaxRetriesBound == 2
MaxLag == 1
MaxChans == 1
MaxCalls == 2
MaxRecords == 2
MaxConds == 2
MaxObjects == 2
MaxStatusCalls == 3
NumDrivers == 2

\* -------------------------------------------------------------- universe
UID == "uid1"
\* The volumes of the group followed through the lifecycle, and the volumes of
\* a response materialized on its own.
Volumes == 1..NumVolumes
BatchVolumes == 1..BatchSize

StageOrd(s) ==
    CASE s = "Initial" -> 0
      [] s = "PreChecks" -> 1
      [] s = "PreSnapshot" -> 2
      [] s = "Snapshot" -> 3
      [] s = "PostSnapshot" -> 4
      [] s = "Final" -> 5

\* Conditions a driver reports on a volume snapshot: (type, status).
CondReady == [type |-> "Ready", status |-> "True"]
CondError == [type |-> "Error", status |-> "True"]
CondPending == [type |-> "Pending", status |-> "True"]
\* The condition lists the driver returns for one volume in this model.
DriverConds == {<<>>, <<CondPending>>, <<CondReady>>, <<CondError>>}
DataSources == {"ds1", "ds2"}
\* The restore-namespace lists a user may set in the spec.
RestoreNamespaceLists == {<<>>, <<"ns1">>}

\* strings.Join(list, ",")
RECURSIVE Join(_)
Join(l) ==
    IF Len(l) = 0 THEN ""
    ELSE IF Len(l) = 1 THEN l[1]
    ELSE l[1] \o "," \o Join(Tail(l))

\* ------------------------------------------------ go-version comparison
\* version.NewVersion of a decimal resource version: the segments, padded
\* to three.
NewVersion(rv) == <<rv, 0, 0>>

LessThan(a, b) ==
    \/ a[1] < b[1]
    \/ a[1] = b[1] /\ a[2] < b[2]
    \/ a[1] = b[1] /\ a[2] = b[2] /\ a[3] < b[3]

\* ------------------------------------------- per-volume record predicates
isAnySnapshotFailed(snapshots) ==
    \E i \in 1..Len(snapshots) :
        /\ Len(snapshots[i].conds) > 0
        /\ snapshots[i].conds[1].status = "True"
        /\ snapshots[i].conds[1].type = "Error"

areAllSnapshotsStarted(snapshots) ==
    /\ Len(snapshots) # 0
    /\ \A i \in 1..Len(snapshots) : Len(snapshots[i].conds) # 0

areAllSnapshotsDone(snapshots) ==
    /\ Len(snapshots) # 0
    /\ Cardinality({i \in 1..Len(snapshots) :
                       /\ Len(snapshots[i].conds) > 0
                       /\ snapshots[i].conds[1].status = "True"
                       /\ snapshots[i].conds[1].type = "Ready"}) = Len(snapshots)

\* ------------------------------------------------------- derived objects
\* A VolumeSnapshotData object (its spec is the driver's data source) and a
\* VolumeSnapshot object (its restore-namespaces annotation), both named
\* {parentName}-{parentPVCOrVolID}-{parentUID}: one name per volume.
NoData == [exists |-> FALSE, spec |-> "ds1"]
NoSnap == [exists |-> FALSE, ann |-> ""]
EmptyStoreOf(V) == [datas |-> [v \in V |-> NoData], snaps |-> [v \in V |-> NoSnap]]
EmptyStore == EmptyStoreOf(Volumes)

\* What the API calls of one materialization do: which create call fails
\* with an error other than AlreadyExists ("none", or the CreateSnapshotData
\* or CreateSnapshot of the record at index at), whether the delete calls
\* fail, and whether CreateSnapshot returns a nil object beside an error.
OraclesOf(V) ==
    {[fail |-> "none", at |-> 0, delFails |-> d, nilOnErr |-> n] :
        d \in BOOLEAN, n \in BOOLEAN}
    \cup [fail : {"data", "snap"}, at : V, delFails : BOOLEAN, nilOnErr : BOOLEAN]
Oracles == OraclesOf(BatchVolumes)
NoFailure == [fail |-> "none", at |-> 0, delFails |-> FALSE, nilOnErr |-> TRUE]
\* The oracles of a materialization inside a reconciliation: no API failure, or
\* a create call of the first record fails; the deletes succeed.
ReconcileOracles == {o \in OraclesOf(Volumes) : ~o.delFails /\ o.at <= 1}

\* wait.ExponentialBackoff(snapDeleteBackoff, DeleteSnapshot) for every
\* snapshot object created so far in the batch; failures are only logged.
RECURSIVE revertLoop(_, _, _, _)
revertLoop(st, created, k, orc) ==
    IF k > Len(created) THEN st
    ELSE LET v == created[k] IN
         IF orc.delFails
         THEN revertLoop([st EXCEPT !.ops = @ \cup {<<"DeleteSnapshot", v, "err">>},
                                    !.revertFailed = TRUE],
                         created, k + 1, orc)
         ELSE revertLoop([st EXCEPT !.snaps[v] = NoSnap,
                                    !.ops = @ \cup {<<"DeleteSnapshot", v, "ok">>}],
                         created, k + 1, orc)

revertSnapObjs(st, orc) == revertLoop(st, st.created, 1, orc)

\* replaceSnapshotData: fetch the existing data object and delete and
\* re-create it when its spec differs.  Returns the state with res "ok"/"err".
replaceSnapshotData(st, v, ds, orc) ==
    LET got == [st EXCEPT !.ops = @ \cup {<<"GetSnapshotData", v, "ok">>}] IN
    IF st.datas[v].spec # ds
    THEN IF orc.delFails
         THEN [got EXCEPT !.ops = @ \cup {<<"DeleteSnapshotData", v, "err">>}, !.res = "err",
                          !.cause = "replaceSnapshotData"]
         ELSE [got EXCEPT !.datas[v] = [exists |-> TRUE, spec |-> ds],
                          !.ops = @ \cup {<<"DeleteSnapshotData", v, "ok">>,
                                          <<"CreateSnapshotData", v, "ok">>},
                          !.res = "ok"]
    ELSE [got EXCEPT !.res = "ok"]

\* replaceSnapshot(snap) with the snap pointer CreateSnapshot returned beside
\* AlreadyExists: a nil pointer is dereferenced (panic).  Otherwise it fetches
\* the snapshot DATA object of that name, compares a data spec with a
\* snapshot spec (never equal), deletes the DATA object and creates the
\* snapshot again, which still exists.
replaceSnapshot(st, v, orc) ==
    IF orc.nilOnErr THEN [st EXCEPT !.res = "panic"]
    ELSE IF ~st.datas[v].exists
    THEN [st EXCEPT !.ops = @ \cup {<<"GetSnapshotData", v, "err">>}, !.res = "err",
                    !.cause = "replaceSnapshot"]
    ELSE IF orc.delFails
    THEN [st EXCEPT !.ops = @ \cup {<<"GetSnapshotData", v, "ok">>,
                                    <<"DeleteSnapshotData", v, "err">>},
                    !.res = "err", !.cause = "replaceSnapshot"]
    ELSE [st EXCEPT !.datas[v] = NoData,
                    !.ops = @ \cup {<<"GetSnapshotData", v, "ok">>,
                                    <<"DeleteSnapshotData", v, "ok">>,
                                    <<"CreateSnapshot", v, "AlreadyExists">>},
                    !.res = "err", !.cause = "replaceSnapshot"]

\* Faulty variant of revertSnapData: a failed delete of the data object is
\* returned in place of the error that started the revert.
revertSnapDataPropagates(st, v, orc) ==
    LET afterData ==
            IF st.datas[v].exists /\ ~orc.delFails
            THEN [st EXCEPT !.datas[v] = NoData,
                            !.ops = @ \cup {<<"DeleteSnapshotData", v, "ok">>}]
            ELSE [st EXCEPT !.ops = @ \cup {<<"DeleteSnapshotData", v, "err">>},
                            !.revertFailed = TRUE, !.cause = "DeleteSnapshotData"]
    IN [revertSnapObjs(afterData, orc) EXCEPT !.res = "err"]

\* The revert of lines 572-581: delete the volume's data object, then every
\* snapshot object created earlier in the batch; the delete errors are logged
\* (revertFailed) and the primary error (cause) is returned.
revertSnapData(st, v, orc) ==
    LET afterData ==
            IF st.datas[v].exists /\ ~orc.delFails
            THEN [st EXCEPT !.datas[v] = NoData,
                            !.ops = @ \cup {<<"DeleteSnapshotData", v, "ok">>}]
            ELSE [st EXCEPT !.ops = @ \cup {<<"DeleteSnapshotData", v, "err">>},
                            !.revertFailed = TRUE]
    IN [revertSnapObjs(afterData, orc) EXCEPT !.res = "err"]

\* One iteration of the loop of createSnapAndDataObjects for snapshots[i].
createOne(st, s, i, ann, orc) ==
    LET v == s.vol
        afterData ==
            IF orc.fail = "data" /\ orc.at = i
            THEN [st EXCEPT !.ops = @ \cup {<<"CreateSnapshotData", v, "err">>}, !.res = "err",
                            !.cause = "CreateSnapshotData"]
            ELSE IF st.datas[v].exists
            THEN replaceSnapshotData(
                    [st EXCEPT !.ops = @ \cup {<<"CreateSnapshotData", v, "AlreadyExists">>}],
                    v, s.ds, orc)
            ELSE [st EXCEPT !.datas[v] = [exists |-> TRUE, spec |-> s.ds],
                            !.ops = @ \cup {<<"CreateSnapshotData", v, "ok">>},
                            !.res = "ok"]
    IN
    IF afterData.res # "ok" THEN afterData
    ELSE IF orc.fail = "snap" /\ orc.at = i
    THEN revertSnapData([afterData EXCEPT !.ops = @ \cup {<<"CreateSnapshot", v, "err">>},
                                          !.cause = "CreateSnapshot"], v, orc)
    ELSE IF afterData.snaps[v].exists
    THEN LET rep == replaceSnapshot(
                      [afterData EXCEPT !.ops = @ \cup {<<"CreateSnapshot", v, "AlreadyExists">>}],
                      v, orc)
         IN IF rep.res = "panic" THEN rep ELSE revertSnapData(rep, v, orc)
    ELSE [afterData EXCEPT !.snaps[v] = [exists |-> TRUE, ann |-> ann],
                           !.ops = @ \cup {<<"CreateSnapshot", v, "ok">>},
                           !.created = Append(@, v),
                           !.updated = Append(@, [s EXCEPT !.name = v])]

RECURSIVE createLoop(_, _, _, _, _)
createLoop(st, snapshots, i, ann, orc) ==
    IF i > Len(snapshots) THEN st
    ELSE LET nxt == createOne(st, snapshots[i], i, ann, orc) IN
         IF nxt.res # "ok" THEN nxt
         ELSE createLoop(nxt, snapshots, i + 1, ann, orc)

\* createSnapAndDataObjects(groupSnap, snapshots) against the derived-object
\* store: the new store, the result ("ok", "err", "panic"), the updated
\* statuses (only on "ok"), the API calls made, the call whose error is
\* returned (cause) and whether a delete of the revert failed.
createSnapAndDataObjects(restoreNamespaces, snapshots, store, orc) ==
    LET ann == IF Len(restoreNamespaces) > 0 THEN Join(restoreNamespaces) ELSE ""
        st0 == [datas |-> store.datas, snaps |-> store.snaps, created |-> <<>>,
                updated |-> <<>>, ops |-> {}, res |-> "ok", cause |-> "none",
                revertFailed |-> FALSE]
    IN createLoop(st0, snapshots, 1, ann, orc)


\* ------------------------------------------------------------------ state
VARIABLES
    spec,                 \* the resource's Spec: selector, rule names, MaxRetries
    obj,                  \* the GroupVolumeSnapshot as persisted by the API server
    cache,                \* the copy the manager's client.Get returns
    minResourceVersions,  \* UID -> resource-version floor
    bgChannelsForRules,   \* UID -> background-command channel
    signals,              \* per channel returned by a pre-hook: times signaled
    store,                \* derived VolumeSnapshotData / VolumeSnapshot objects
    ev,                   \* what the last step did, if it was a reconciliation
    matIn,                \* input of the calls of a function followed on its own
    matOut,               \* results of those calls
    backup,               \* the ApplicationBackup an ApplicationRestore names
    restore,              \* the ApplicationRestore as persisted by the API server
    restoreCache,         \* the copy the manager's client.Get returns
    rev,                  \* what the last step did, if it reconciled the restore
    rhist,                \* what the reconciliations of the restore did so far
    cluster               \* the restore's namespace mapping and the namespaces

\* The variables of the GroupVolumeSnapshot controller and those of the
\* ApplicationRestore controller.
gsVars == <<spec, obj, cache, minResourceVersions, bgChannelsForRules, signals,
            store, ev, matIn, matOut>>
arVars == <<backup, restore, restoreCache, rev, rhist, cluster>>
vars == <<spec, obj, cache, minResourceVersions, bgChannelsForRules, signals,
          store, ev, matIn, matOut, backup, restore, restoreCache, rev, rhist,
          cluster>>

\* ------------------------------------ ApplicationRestore: the resource
\* The volume drivers a backup's volumes may name; the model gives every
\* driver of the backup one volume.
Drivers == 1..NumDrivers
\* The statuses a driver reports for a volume restore (a restore that has not
\* finished is reported InProgress).
VolumeStatuses == {"InProgress", "Failed", "Successful"}

RestoreStageOrd(s) ==
    CASE s = "Initial" -> 0
      [] s = "Volumes" -> 1
      [] s = "Applications" -> 2
      [] s = "Final" -> 3

\* Status.Reason: none, the StartRestore message, a volume's reason, or the
\* texts of lines 530 and 1037-1042.
NoReason == <<>>
StartReason == <<"Error starting Application Restore for volumes">>
VolumeReason(d) == <<"volume", d>>
AppsReason == <<"Application resources restore is in progress">>
DoneReason(partial) ==
    IF partial
    THEN <<"Volumes were restored successfully. Some existing resources were not replaced">>
    ELSE <<"Volumes and resources were restored up successfully">>

NewRestore ==
    [exists |-> TRUE, finalizer |-> FALSE, deleting |-> FALSE, rv |-> 1,
     stage |-> "Initial", status |-> "Initial", reason |-> NoReason, volumes |-> <<>>,
     totalSize |-> 0]
GoneRestore == [NewRestore EXCEPT !.exists = FALSE, !.rv = 0]

\* What a reconciliation of the restore did: the branch taken (op, handler),
\* the drivers StartRestore and CancelRestore were called on, in call order,
\* the statuses polled, whether the resource restore ran and applied
\* manifests, the error the handler or the cleanup returned, the warning
\* event, the number of Updates that succeeded and Reconcile's result; the
\* namespaces the gate created and updated, whether the backup object and
\* the backup's payload were read, and the stage and status each successful
\* Update persisted, in order; gateFault: an API call of the gate failed.
NoRev ==
    [op |-> "none", handler |-> "none", started |-> <<>>, startErr |-> FALSE,
     polled |-> <<>>, cancelled |-> <<>>, cleanupErr |-> FALSE, apps |-> FALSE,
     applied |-> FALSE, err |-> FALSE, event |-> FALSE, writes |-> 0,
     result |-> "none", nsCreated |-> <<>>, nsUpdated |-> <<>>,
     gateFault |-> FALSE, backupRead |-> FALSE, payload |-> FALSE, trail |-> <<>>]

\* Whether a StartRestore call has failed, and whether a driver has reported
\* a Failed volume, in some reconciliation so far.
NoHist == [startErr |-> FALSE, failedPolled |-> FALSE]

\* The namespaces a mapping may name.  The restore lives in RestoreNamespace;
\* NoName is the name of a Namespace object that was never filled in.
Namespaces == {"ns1", "ns2"}
RestoreNamespace == "ns1"
NoName == ""

\* The restore's surroundings: whether it lives in the admin namespace
\* (admin), the destinations of Spec.NamespaceMapping after setDefaults
\* (mapping), whether the backup captured namespace manifests (captured), and
\* the namespaces that exist in the cluster (existing).
HomeCluster ==
    [admin |-> FALSE, mapping |-> {RestoreNamespace}, captured |-> FALSE,
     existing |-> {RestoreNamespace}]

\* No ApplicationRestore exists (the runs of the group-snapshot controller).
NoApplicationRestore ==
    /\ cluster = HomeCluster
    /\ backup = {}
    /\ restore = GoneRestore
    /\ restoreCache = GoneRestore
    /\ rev = NoRev
    /\ rhist = NoHist

\* Go maps keyed by UID.
EmptyMap == [u \in {} |-> 0]
Has(m, u) == u \in DOMAIN m
Put(m, u, x) == [k \in DOMAIN m \cup {u} |-> IF k = u THEN x ELSE m[k]]
Del(m, u) == [k \in DOMAIN m \ {u} |-> m[k]]

NoEv ==
    [op |-> "none", handler |-> "none", hadFloor |-> FALSE, below |-> FALSE,
     driver |-> "none", resp |-> "none", preHook |-> FALSE, postHook |-> FALSE,
     ruleLookup |-> "none", claimLookup |-> "none", event |-> FALSE, err |-> FALSE,
     herr |-> FALSE, wrote |-> FALSE, signaled |-> 0, matRes |-> "none"]

\* The observation record of a reconciliation of the delivered copy gs:
\* whether a floor was recorded and whether gs's version is below it.
Begin(gs, op) ==
    [NoEv EXCEPT !.op = op,
                 !.hadFloor = Has(minResourceVersions, UID),
                 !.below = Has(minResourceVersions, UID)
                           /\ gs.rv < minResourceVersions[UID]]

NewObject ==
    [exists |-> TRUE, finalizer |-> FALSE, deleting |-> FALSE, rv |-> 1,
     stage |-> "Initial", status |-> "Initial", numRetries |-> 0, vs |-> <<>>,
     restoreNs |-> <<>>]
Gone == [NewObject EXCEPT !.exists = FALSE, !.rv = 0]

\* Writes other than the controller's own (the user's, a rule execution's) are
\* taken while the cache is fewer than MaxLag of them behind.
CanWrite(srv) == srv.exists /\ srv.rv - cache.rv < MaxLag
\* The API server's Update of copy w over the persisted object srv: rejected
\* unless w carries srv's resource version; an object whose deletion was
\* requested goes away with its last finalizer.
CanUpdate(srv, w) == srv.exists /\ w.rv = srv.rv
Written(srv, w) ==
    IF w.deleting /\ ~w.finalizer THEN Gone ELSE [w EXCEPT !.rv = srv.rv + 1]

\* A write to the object by a rule execution (it tracks the rule on its owner).
HookWrite(srv, writes) ==
    IF writes /\ CanWrite(srv) THEN [srv EXCEPT !.rv = @ + 1] ELSE srv

\* The next server copy o, cached copy c and floor map f, with the versions
\* taken relative to the cached copy's.
Commit(o, c, f) ==
    LET d == (IF c.exists THEN c.rv ELSE 1) - 1
        sh(x) == IF x.exists THEN [x EXCEPT !.rv = @ - d] ELSE Gone
    IN /\ obj' = sh(o)
       /\ cache' = sh(c)
       /\ minResourceVersions' =
             [u \in DOMAIN f |-> IF f[u] - d < 0 THEN 0 ELSE f[u] - d]

\* The resource as the user created it: retries disabled (MaxRetries 0) or a
\* budget of MaxRetriesBound.
Init ==
    /\ spec \in [hasExpr : BOOLEAN, hasLabels : BOOLEAN, preRule : BOOLEAN,
                 postRule : BOOLEAN, maxRetries : {0, MaxRetriesBound}]
    /\ obj = NewObject
    /\ cache = obj
    /\ minResourceVersions = EmptyMap
    /\ bgChannelsForRules = EmptyMap
    /\ signals = <<>>
    /\ store = EmptyStore
    /\ ev = NoEv
    /\ matIn = <<>>
    /\ matOut = <<>>
    /\ NoApplicationRestore

\* ------------------------------------------------- handle: lines 206-229
\* Faulty variant of Persist: the written version is not recorded as the floor.
PersistNoFloor(srv, w, updateCRD, e) ==
    IF ~updateCRD
    THEN /\ Commit(srv, cache, minResourceVersions)
         /\ ev' = e
    ELSE \E apiOk \in BOOLEAN :
            IF apiOk /\ CanUpdate(srv, w)
            THEN /\ Commit(Written(srv, w), cache, minResourceVersions)
                 /\ ev' = [e EXCEPT !.wrote = TRUE]
            ELSE /\ Commit(srv, cache, minResourceVersions)
                 /\ ev' = [e EXCEPT !.err = TRUE]

\* The tail of handle after a stage handler returned the copy w without an
\* error: Update when updateCRD, then bump the floor to the written version.
Persist(srv, w, updateCRD, e) ==
    IF ~updateCRD
    THEN /\ Commit(srv, cache, minResourceVersions)
         /\ ev' = e
    ELSE \E apiOk \in BOOLEAN :
            IF apiOk /\ CanUpdate(srv, w)
            THEN /\ Commit(Written(srv, w), cache,
                           Put(minResourceVersions, UID, srv.rv + 1))
                 /\ ev' = [e EXCEPT !.wrote = TRUE]
            ELSE /\ Commit(srv, cache, minResourceVersions)
                 /\ ev' = [e EXCEPT !.err = TRUE]

\* Faulty variant of Fail: the delivered version is recorded as the floor
\* although nothing was written.
FailBumpsFloor(srv, e) ==
    /\ Commit(srv, cache, Put(minResourceVersions, UID, cache.rv + 1))
    /\ ev' = [e EXCEPT !.err = TRUE, !.herr = TRUE, !.event = TRUE]

\* The stage handler returned an error (herr): a warning event, and nothing
\* written.
Fail(srv, e) ==
    /\ Commit(srv, cache, minResourceVersions)
    /\ ev' = [e EXCEPT !.err = TRUE, !.herr = TRUE, !.event = TRUE]

\* Faulty variant of Finish: the copy is written when the handler asked for
\* it, although it returned an error.
FinishWritesOnError(srv, r, e) ==
    IF r.err /\ ~r.updateCRD THEN Fail(srv, e)
    ELSE Persist(srv, r.gs, r.updateCRD, [e EXCEPT !.herr = r.err, !.event = r.err])

\* handle, lines 206-229: an error of the stage handler is returned before
\* the Update, whatever updateCRD says.
Finish(srv, r, e) ==
    IF r.err THEN Fail(srv, e) ELSE Persist(srv, r.gs, r.updateCRD, e)

\* Reconcile, lines 98-120: what it returns after the reconciliation e: no
\* requeue when the object is gone, an immediate requeue once the finalizer
\* is set, the error with the error delay when handle (or the Update of the
\* finalizer) failed, the resync delay otherwise.
ReconcileResult(e) ==
    IF e.op = "notFound" THEN "done"
    ELSE IF e.err THEN "error"
    ELSE IF e.op = "addFinalizer" THEN "requeueNow"
    ELSE "requeue"

\* Faulty variant of IsStale: the comparison is the wrong way round.
IsStaleReversed(gs) ==
    /\ Has(minResourceVersions, UID)
    /\ LessThan(NewVersion(minResourceVersions[UID]), NewVersion(gs.rv))

\* The version-floor gate of lines 140-168.
IsStale(gs) ==
    /\ Has(minResourceVersions, UID)
    /\ LessThan(NewVersion(gs.rv), NewVersion(minResourceVersions[UID]))

\* Reconcile got the object, it carries the finalizer and is not being deleted.
Delivered(stages) ==
    /\ cache.exists /\ cache.finalizer /\ ~cache.deleting
    /\ ~IsStale(cache)
    /\ cache.stage \in stages

\* What a driver call returns: an error, or one record per volume of the
\* group (possibly none at all).
\* The handlers read a response through isAnySnapshotFailed, areAllSnapshotsDone
\* and areAllSnapshotsStarted, which do not depend on the order of the records:
\* one response stands for every permutation of its condition lists.
Record(v, c, d) == [vol |-> v, conds |-> c, ds |-> d, name |-> 0]
CondRank(c) ==
    IF c = <<>> THEN 0
    ELSE CASE c[1].type = "Pending" -> 1
           [] c[1].type = "Ready" -> 2
           [] c[1].type = "Error" -> 3
DriverResponses ==
    {[err |-> TRUE, snapshots |-> <<>>], [err |-> FALSE, snapshots |-> <<>>]}
    \cup {[err |-> FALSE, snapshots |-> [v \in Volumes |-> Record(v, c[v], "ds1")]] :
            c \in {f \in [Volumes -> DriverConds] :
                      \A v, w \in Volumes : v < w => CondRank(f[v]) <= CondRank(f[w])}}

\* ---------------------------------------------------------- stage handlers
\* Each returns the copy as the handler left it, updateCRD and err.
\* Faulty variant of missingRule: the missing rule is recorded as a terminal
\* failure.
missingRuleFailsFinal(gs) ==
    [gs |-> [gs EXCEPT !.status = "Failed", !.stage = "Final"], updateCRD |-> TRUE,
     err |-> FALSE, claimLookup |-> "found", ruleLookup |-> "missing"]

\* Lines 278-289: GetRule of a named pre- or post-rule failed.
missingRule(gs) ==
    [gs |-> gs, updateCRD |-> FALSE, err |-> TRUE, claimLookup |-> "found",
     ruleLookup |-> "missing"]

\* Faulty variant of handleInitial: the move to Snapshot is made whether or
\* not a pre-rule is named.
handleInitialSkipsPreSnap(gs, found, preOk, postOk) ==
    LET base == [gs |-> gs, updateCRD |-> FALSE, err |-> FALSE,
                 claimLookup |-> "none", ruleLookup |-> "none"] IN
    IF spec.hasExpr \/ ~spec.hasLabels
    THEN [base EXCEPT !.gs = [gs EXCEPT !.status = "Failed", !.stage = "Final"],
                      !.updateCRD = TRUE, !.err = TRUE]
    ELSE IF ~found
    THEN IF gs.status = "Pending"
         THEN [base EXCEPT !.err = TRUE, !.claimLookup = "notFound"]
         ELSE [base EXCEPT !.gs = [gs EXCEPT !.status = "Pending", !.stage = "PreChecks"],
                           !.updateCRD = TRUE, !.err = TRUE, !.claimLookup = "notFound"]
    ELSE IF (spec.preRule /\ ~preOk) \/ (spec.postRule /\ ~postOk)
    THEN missingRule(gs)
    ELSE [base EXCEPT !.gs = [gs EXCEPT !.status = "InProgress", !.stage = "Snapshot"],
                      !.updateCRD = TRUE, !.claimLookup = "found",
                      !.ruleLookup = IF spec.preRule \/ spec.postRule THEN "found"
                                     ELSE "none"]

handleInitial(gs, found, preOk, postOk) ==
    LET base == [gs |-> gs, updateCRD |-> FALSE, err |-> FALSE,
                 claimLookup |-> "none", ruleLookup |-> "none"] IN
    IF spec.hasExpr \/ ~spec.hasLabels
    THEN [base EXCEPT !.gs = [gs EXCEPT !.status = "Failed", !.stage = "Final"],
                      !.updateCRD = TRUE, !.err = TRUE]
    ELSE IF ~found
    THEN IF gs.status = "Pending"
         THEN [base EXCEPT !.err = TRUE, !.claimLookup = "notFound"]
         ELSE [base EXCEPT !.gs = [gs EXCEPT !.status = "Pending", !.stage = "PreChecks"],
                           !.updateCRD = TRUE, !.err = TRUE, !.claimLookup = "notFound"]
    ELSE IF (spec.preRule /\ ~preOk) \/ (spec.postRule /\ ~postOk)
    THEN missingRule(gs)
    ELSE [base EXCEPT !.gs = [gs EXCEPT !.status = "InProgress",
                                        !.stage = IF spec.preRule THEN "PreSnapshot"
                                                  ELSE "Snapshot"],
                      !.updateCRD = TRUE, !.claimLookup = "found",
                      !.ruleLookup = IF spec.preRule \/ spec.postRule THEN "found"
                                     ELSE "none"]

\* handlePreSnap.  srv is the persisted object, hook the outcome of
\* rule.ExecuteRule: whether it succeeded, whether it returned a channel,
\* whether it wrote the owner; sig and bg are the channels' signal counts
\* and the UID -> channel map.
handlePreSnap(gs, srv, sig, bg, ruleOk, hook, refetchOk) ==
    LET base == [gs |-> gs, updateCRD |-> FALSE, err |-> FALSE, srv |-> srv,
                 sig |-> sig, bg |-> bg, preHook |-> FALSE, ruleLookup |-> "none"]
        srv2 == HookWrite(srv, hook.writes)
        ch == Len(sig) + 1
    IN
    IF ~spec.preRule
    THEN [base EXCEPT !.gs = [gs EXCEPT !.status = "InProgress", !.stage = "Snapshot"],
                      !.updateCRD = TRUE]
    ELSE IF ~ruleOk
    THEN [base EXCEPT !.err = TRUE, !.ruleLookup = "missing"]
    ELSE IF ~hook.ok
    THEN [base EXCEPT !.err = TRUE, !.ruleLookup = "found", !.preHook = TRUE, !.srv = srv2,
                      !.sig = IF hook.chan THEN Append(sig, 1) ELSE sig]
    ELSE IF ~(refetchOk /\ srv2.exists)
    THEN [base EXCEPT !.err = TRUE, !.ruleLookup = "found", !.preHook = TRUE, !.srv = srv2,
                      !.sig = IF hook.chan THEN Append(sig, 0) ELSE sig]
    ELSE [base EXCEPT !.gs = [srv2 EXCEPT !.stage = "Snapshot"],
                      !.updateCRD = TRUE, !.ruleLookup = "found", !.preHook = TRUE,
                      !.srv = srv2,
                      !.sig = IF hook.chan THEN Append(sig, 0) ELSE sig,
                      !.bg = IF hook.chan THEN Put(bg, UID, ch) ELSE bg]

\* handleSnap.  resp is the driver's answer, st the derived-object store,
\* orc what the API calls of the materialization do.
\* Faulty variant of retryAllowed: one retry too many.
retryAllowedOffByOne(gs) == gs.numRetries <= spec.maxRetries

\* Faulty variant of retrySnap: the per-volume records are kept.
retrySnapKeepsRecords(gs) ==
    [gs EXCEPT !.numRetries = @ + 1, !.status = "Pending", !.stage = "Snapshot"]

\* Faulty variant of handleSnap: a response without records is taken as a
\* group snapshot still in progress.
handleSnapEmptyOk(gs, resp, st, orc) ==
    LET base == [gs |-> gs, updateCRD |-> FALSE, err |-> FALSE, event |-> FALSE,
                 store |-> st, matRes |-> "none", resp |-> "err",
                 driver |-> IF Len(gs.vs) > 0 THEN "status" ELSE "create"]
    IN
    IF resp.err THEN [base EXCEPT !.err = TRUE]
    ELSE IF Len(resp.snapshots) = 0
    THEN [base EXCEPT !.gs = [gs EXCEPT !.status = "InProgress", !.stage = "Snapshot"],
                      !.updateCRD = TRUE, !.resp = "empty"]
    ELSE IF isAnySnapshotFailed(resp.snapshots)
    THEN IF gs.numRetries < spec.maxRetries
         THEN [base EXCEPT !.gs = [gs EXCEPT !.numRetries = @ + 1, !.vs = <<>>,
                                             !.status = "Pending", !.stage = "Snapshot"],
                           !.updateCRD = TRUE, !.event = TRUE, !.resp = "failed"]
         ELSE [base EXCEPT !.gs = [gs EXCEPT !.vs = resp.snapshots,
                                             !.status = "Failed", !.stage = "PostSnapshot"],
                           !.updateCRD = TRUE, !.event = TRUE, !.resp = "failed"]
    ELSE IF areAllSnapshotsDone(resp.snapshots)
    THEN LET m == createSnapAndDataObjects(gs.restoreNs, resp.snapshots, st, orc)
             st2 == [datas |-> m.datas, snaps |-> m.snaps]
         IN IF m.res # "ok"
            THEN [base EXCEPT !.err = TRUE, !.store = st2, !.matRes = m.res,
                              !.resp = "done"]
            ELSE [base EXCEPT !.gs = [gs EXCEPT !.vs = m.updated, !.status = "InProgress",
                                                !.stage = "PostSnapshot"],
                              !.updateCRD = TRUE, !.store = st2, !.matRes = m.res,
                              !.resp = "done"]
    ELSE [base EXCEPT !.gs = [gs EXCEPT !.vs = resp.snapshots, !.status = "InProgress",
                                        !.stage = "Snapshot"],
                      !.updateCRD = TRUE, !.resp = "active"]

\* Line 374: a failed response is retried while the budget lasts.
retryAllowed(gs) == gs.numRetries < spec.maxRetries

\* Faulty variant of retrySnap: a retry is counted twice.
retrySnapCountsTwice(gs) ==
    [gs EXCEPT !.numRetries = @ + 2, !.vs = <<>>, !.status = "Pending",
               !.stage = "Snapshot"]

\* Lines 375-381: the retry step.
retrySnap(gs) ==
    [gs EXCEPT !.numRetries = @ + 1, !.vs = <<>>, !.status = "Pending",
               !.stage = "Snapshot"]

handleSnap(gs, resp, st, orc) ==
    LET base == [gs |-> gs, updateCRD |-> FALSE, err |-> FALSE, event |-> FALSE,
                 store |-> st, matRes |-> "none", resp |-> "err",
                 driver |-> IF Len(gs.vs) > 0 THEN "status" ELSE "create"]
    IN
    IF resp.err THEN [base EXCEPT !.err = TRUE]
    ELSE IF Len(resp.snapshots) = 0 THEN [base EXCEPT !.err = TRUE, !.resp = "empty"]
    ELSE IF isAnySnapshotFailed(resp.snapshots)
    THEN IF retryAllowed(gs)
         THEN [base EXCEPT !.gs = retrySnap(gs),
                           !.updateCRD = TRUE, !.event = TRUE, !.resp = "failed"]
         ELSE [base EXCEPT !.gs = [gs EXCEPT !.vs = resp.snapshots,
                                             !.status = "Failed", !.stage = "PostSnapshot"],
                           !.updateCRD = TRUE, !.event = TRUE, !.resp = "failed"]
    ELSE IF areAllSnapshotsDone(resp.snapshots)
    THEN LET m == createSnapAndDataObjects(gs.restoreNs, resp.snapshots, st, orc)
             st2 == [datas |-> m.datas, snaps |-> m.snaps]
         IN IF m.res # "ok"
            THEN [base EXCEPT !.err = TRUE, !.store = st2, !.matRes = m.res,
                              !.resp = "done"]
            ELSE [base EXCEPT !.gs = [gs EXCEPT !.vs = m.updated, !.status = "InProgress",
                                                !.stage = "PostSnapshot"],
                              !.updateCRD = TRUE, !.store = st2, !.matRes = m.res,
                              !.resp = "done"]
    ELSE [base EXCEPT !.gs = [gs EXCEPT !.vs = resp.snapshots, !.status = "InProgress",
                                        !.stage = "Snapshot"],
                      !.updateCRD = TRUE, !.resp = "active"]

\* Faulty variant of finalize: a Failed status is overwritten.
finalizeSuccessful(o) == [o EXCEPT !.status = "Successful", !.stage = "Final"]

\* handlePostSnap.
finalize(o) ==
    [o EXCEPT !.status = IF o.status # "Failed" THEN "Successful" ELSE @,
              !.stage = "Final"]

handlePostSnap(gs, srv, ruleOk, hook, refetchOk) ==
    LET base == [gs |-> gs, updateCRD |-> FALSE, err |-> FALSE, srv |-> srv,
                 postHook |-> FALSE, ruleLookup |-> "none"]
        srv2 == HookWrite(srv, hook.writes)
    IN
    IF ~spec.postRule
    THEN [base EXCEPT !.gs = finalize(gs), !.updateCRD = TRUE]
    ELSE IF ~ruleOk
    THEN [base EXCEPT !.err = TRUE, !.ruleLookup = "missing"]
    ELSE IF ~hook.ok
    THEN [base EXCEPT !.err = TRUE, !.ruleLookup = "found", !.postHook = TRUE, !.srv = srv2]
    ELSE IF ~(refetchOk /\ srv2.exists)
    THEN [base EXCEPT !.err = TRUE, !.ruleLookup = "found", !.postHook = TRUE, !.srv = srv2]
    ELSE [base EXCEPT !.gs = finalize(srv2), !.updateCRD = TRUE, !.ruleLookup = "found",
                      !.postHook = TRUE, !.srv = srv2]

\* handleFinal: the loop of lines 707-726 over the child snapshots from k on;
\* failIdx is the child at which GetSnapshot or UpdateSnapshot fails.
RECURSIVE updateChildren(_, _, _, _, _)
updateChildren(st, children, k, latest, failIdx) ==
    IF k > Len(children) THEN [store |-> st, err |-> FALSE]
    ELSE LET n == children[k].name IN
         IF n = 0 \/ ~st.snaps[n].exists
         THEN updateChildren(st, children, k + 1, latest, failIdx)
         ELSE IF failIdx = k THEN [store |-> st, err |-> TRUE]
         ELSE updateChildren([st EXCEPT !.snaps[n].ann = latest], children, k + 1,
                             latest, failIdx)

handleFinal(gs, st, getFails, failIdx) ==
    IF Len(gs.vs) = 0 THEN [store |-> st, err |-> FALSE]
    ELSE LET first == gs.vs[1].name IN
         IF getFails \/ first = 0 \/ ~st.snaps[first].exists
         THEN [store |-> st, err |-> TRUE]
         ELSE IF Join(gs.restoreNs) # st.snaps[first].ann
         THEN updateChildren(st, gs.vs, 1, Join(gs.restoreNs), failIdx)
         ELSE [store |-> st, err |-> FALSE]

HookOutcomes ==
    [ok : BOOLEAN, chan : IF Len(signals) < MaxChans THEN BOOLEAN ELSE {FALSE},
     writes : BOOLEAN]

\* ------------------------------------------------------------- Reconcile
\* client.Get finds nothing: return without requeue.
ReconcileNotFound ==
    /\ ~cache.exists
    /\ ev' = [NoEv EXCEPT !.op = "notFound"]
    /\ UNCHANGED <<arVars, spec, obj, cache, minResourceVersions, bgChannelsForRules,
                   signals, store, matIn, matOut>>

\* Faulty variant of ReconcileAddFinalizer: the reconciliation that sets the
\* finalizer goes on to handle the resource.
ReconcileAddFinalizerHandles ==
    /\ cache.exists /\ ~cache.finalizer
    /\ \E found, preOk, postOk \in BOOLEAN :
          LET r == handleInitial([cache EXCEPT !.finalizer = TRUE], found, preOk, postOk)
              e == [Begin(cache, "addFinalizer") EXCEPT !.handler = "handleInitial",
                        !.claimLookup = r.claimLookup, !.ruleLookup = r.ruleLookup]
          IN Finish(obj, r, e)
    /\ UNCHANGED <<arVars, spec, bgChannelsForRules, signals, store, matIn, matOut>>

\* Lines 110-113: no finalizer yet: set it, Update, requeue.
ReconcileAddFinalizer ==
    /\ cache.exists /\ ~cache.finalizer
    /\ \E apiOk \in BOOLEAN :
          LET w == [cache EXCEPT !.finalizer = TRUE]
              e == Begin(cache, "addFinalizer") IN
          IF apiOk /\ CanUpdate(obj, w)
          THEN /\ Commit(Written(obj, w), cache, minResourceVersions)
               /\ ev' = [e EXCEPT !.wrote = TRUE]
          ELSE /\ Commit(obj, cache, minResourceVersions)
               /\ ev' = [e EXCEPT !.err = TRUE]
    /\ UNCHANGED <<arVars, spec, bgChannelsForRules, signals, store, matIn, matOut>>

\* Faulty variant of HandleDelete: a failed driver delete is only logged and
\* the finalizer is removed all the same.
HandleDeleteIgnoresDriver ==
    /\ cache.exists /\ cache.finalizer /\ cache.deleting
    /\ \E driverOk, apiOk \in BOOLEAN :
          LET w == [cache EXCEPT !.finalizer = FALSE]
              f == Del(minResourceVersions, UID)
              e == [Begin(cache, "delete") EXCEPT !.driver = "delete",
                        !.resp = IF driverOk THEN "deleted" ELSE "err"] IN
          IF apiOk /\ CanUpdate(obj, w)
          THEN Commit(Written(obj, w), cache, f) /\ ev' = [e EXCEPT !.wrote = TRUE]
          ELSE Commit(obj, cache, f) /\ ev' = [e EXCEPT !.err = TRUE]
    /\ UNCHANGED <<arVars, spec, bgChannelsForRules, signals, store, matIn, matOut>>

\* handle, lines 124-137, with handleDelete: the floor entry is dropped, then
\* the driver is asked to delete the group snapshot (resp "deleted" or "err").
HandleDelete ==
    /\ cache.exists /\ cache.finalizer /\ cache.deleting
    /\ \E driverOk, apiOk \in BOOLEAN :
          LET w == [cache EXCEPT !.finalizer = FALSE]
              f == Del(minResourceVersions, UID)
              e == [Begin(cache, "delete") EXCEPT !.driver = "delete",
                        !.resp = IF driverOk THEN "deleted" ELSE "err"] IN
          IF ~driverOk
          THEN Commit(obj, cache, f) /\ ev' = [e EXCEPT !.err = TRUE]
          ELSE IF apiOk /\ CanUpdate(obj, w)
          THEN Commit(Written(obj, w), cache, f) /\ ev' = [e EXCEPT !.wrote = TRUE]
          ELSE Commit(obj, cache, f) /\ ev' = [e EXCEPT !.err = TRUE]
    /\ UNCHANGED <<arVars, spec, bgChannelsForRules, signals, store, matIn, matOut>>

\* handle, lines 162-167: the delivered version is below the floor.
HandleStale ==
    /\ cache.exists /\ cache.finalizer /\ ~cache.deleting
    /\ IsStale(cache)
    /\ ev' = Begin(cache, "stale")
    /\ UNCHANGED <<arVars, spec, obj, cache, minResourceVersions, bgChannelsForRules,
                   signals, store, matIn, matOut>>

\* Lines 172-174 and 206-229 for a delivered copy in Initial or PreChecks:
\* found, preOk, postOk say whether the claims and the named rules are found.
InitialStep(found, preOk, postOk) ==
    LET r == handleInitial(cache, found, preOk, postOk)
        e == [Begin(cache, "handle") EXCEPT !.handler = "handleInitial",
                  !.claimLookup = r.claimLookup, !.ruleLookup = r.ruleLookup]
    IN /\ Finish(obj, r, e)
       /\ UNCHANGED <<arVars, spec, bgChannelsForRules, signals, store, matIn, matOut>>

HandleInitial ==
    /\ Delivered({"Initial", "PreChecks"})
    /\ \E found, preOk, postOk \in BOOLEAN : InitialStep(found, preOk, postOk)

\* Lines 175-180 and 206-229 for a delivered copy in PreSnapshot: ruleOk and
\* refetchOk say whether GetRule and the re-fetch succeed, hook what the rule
\* execution does.
PreSnapStep(ruleOk, refetchOk, hook) ==
    LET r == handlePreSnap(cache, obj, signals, bgChannelsForRules, ruleOk, hook,
                           refetchOk)
        e == [Begin(cache, "handle") EXCEPT !.handler = "handlePreSnap",
                  !.ruleLookup = r.ruleLookup, !.preHook = r.preHook,
                  !.signaled = IF Len(r.sig) > Len(signals) /\ r.sig[Len(r.sig)] = 1
                               THEN 1 ELSE 0]
    IN /\ signals' = r.sig
       /\ bgChannelsForRules' = r.bg
       /\ Finish(r.srv, r, e)
       /\ UNCHANGED <<arVars, spec, store, matIn, matOut>>

HandlePreSnap ==
    /\ Delivered({"PreSnapshot"})
    /\ \E ruleOk, refetchOk \in BOOLEAN, hook \in HookOutcomes :
          PreSnapStep(ruleOk, refetchOk, hook)

\* Lines 181-193: handleSnap, then the background channel is signaled when
\* every record of the copy has a condition, whether or not handleSnap failed.
SnapStep(resp, orc) ==
    LET r == handleSnap(cache, resp, store, orc)
        fire == /\ r.matRes # "panic"
                /\ areAllSnapshotsStarted(r.gs.vs)
                /\ Has(bgChannelsForRules, UID)
        e == [Begin(cache, "handle") EXCEPT !.handler = "handleSnap",
                  !.driver = r.driver, !.resp = r.resp, !.matRes = r.matRes,
                  !.signaled = IF fire THEN 1 ELSE 0]
    IN /\ store' = r.store
       /\ IF fire
          THEN /\ signals' = [signals EXCEPT ![bgChannelsForRules[UID]] = @ + 1]
               /\ bgChannelsForRules' = Del(bgChannelsForRules, UID)
          ELSE UNCHANGED <<signals, bgChannelsForRules>>
       /\ IF r.matRes = "panic"
          THEN /\ Commit(obj, cache, minResourceVersions)
               /\ ev' = [e EXCEPT !.err = TRUE]
          ELSE Finish(obj, r, [e EXCEPT !.event = r.event])
       /\ UNCHANGED <<arVars, spec, matIn, matOut>>

HandleSnap ==
    /\ Delivered({"Snapshot"})
    /\ \E resp \in DriverResponses :
       \E orc \in IF areAllSnapshotsDone(resp.snapshots) THEN ReconcileOracles
                  ELSE {NoFailure} :
          SnapStep(resp, orc)

\* Lines 194-199 and 206-229 for a delivered copy in PostSnapshot.
PostSnapStep(ruleOk, refetchOk, hook) ==
    LET r == handlePostSnap(cache, obj, ruleOk, hook, refetchOk)
        e == [Begin(cache, "handle") EXCEPT !.handler = "handlePostSnap",
                  !.ruleLookup = r.ruleLookup, !.postHook = r.postHook]
    IN /\ Finish(r.srv, r, e)
       /\ UNCHANGED <<arVars, spec, bgChannelsForRules, signals, store, matIn, matOut>>

HandlePostSnap ==
    /\ Delivered({"PostSnapshot"})
    /\ \E ruleOk, refetchOk \in BOOLEAN, hook \in [ok : BOOLEAN, writes : BOOLEAN] :
          PostSnapStep(ruleOk, refetchOk, hook)

\* Line 201: handleFinal's error is returned as it is.  getFails: the first
\* GetSnapshot fails; failIdx: the child at which the update loop fails (0: none).
FinalStep(getFails, failIdx) ==
    LET r == handleFinal(cache, store, getFails, failIdx) IN
    /\ store' = r.store
    /\ ev' = [Begin(cache, "handle") EXCEPT !.handler = "handleFinal",
                  !.err = r.err]
    /\ UNCHANGED <<arVars, spec, obj, cache, minResourceVersions, bgChannelsForRules,
                   signals, matIn, matOut>>

HandleFinal ==
    /\ Delivered({"Final"})
    /\ \E getFails \in BOOLEAN, failIdx \in 0..Len(cache.vs) :
          FinalStep(getFails, failIdx)

\* A reconciliation in stage Final in which every API call succeeds.
HandleFinalNoFault ==
    /\ Delivered({"Final"})
    /\ FinalStep(FALSE, 0)

\* ----------------------------------------------------------- environment
\* The informer cache catches up with the API server.
CacheSync ==
    /\ cache # obj
    /\ Commit(obj, obj, minResourceVersions)
    /\ ev' = NoEv
    /\ UNCHANGED <<arVars, spec, bgChannelsForRules, signals, store, matIn, matOut>>

\* The user deletes the resource: a deletion timestamp while a finalizer holds it.
UserDelete ==
    /\ CanWrite(obj) /\ ~obj.deleting
    /\ Commit(IF obj.finalizer THEN [obj EXCEPT !.deleting = TRUE, !.rv = @ + 1]
              ELSE Gone, cache, minResourceVersions)
    /\ ev' = NoEv
    /\ UNCHANGED <<arVars, spec, bgChannelsForRules, signals, store, matIn, matOut>>

Next ==
    \/ ReconcileNotFound
    \/ ReconcileAddFinalizer
    \/ HandleDelete
    \/ HandleStale
    \/ HandleInitial
    \/ HandlePreSnap
    \/ HandleSnap
    \/ HandlePostSnap
    \/ HandleFinal
    \/ CacheSync
    \/ UserDelete

Spec == Init /\ [][Next]_vars

\* ------------------------------------------------------- process restart
\* The copy handleInitial persists for a group snapshot with a named pre-rule
\* (lines 291-295): in progress, stage PreSnapshot, nothing recorded yet.
PreSnapshotCopy ==
    [NewObject EXCEPT !.finalizer = TRUE, !.status = "InProgress",
                      !.stage = "PreSnapshot"]

\* What the informer of a new process may hold after its initial list: the
\* object as persisted, the copy the old process held, or an older version the
\* server has held.  Of the older versions the model takes the one persisted
\* on the way to Snapshot when a pre-rule is named.
ListedCopies ==
    {obj, cache}
    \cup IF obj.exists /\ spec.preRule /\ StageOrd(obj.stage) >= StageOrd("Snapshot")
         THEN {PreSnapshotCopy} ELSE {}

\* Init, lines 76-86, in a new process: both maps start empty.  The versions
\* are taken relative to the listed copy: a listed copy that is not the
\* persisted one is behind it, by one write in the model (the code only
\* compares a delivered version with the persisted one and with the floor).
Restart ==
    /\ obj.exists
    /\ \E c \in ListedCopies :
          Commit(IF c = obj THEN obj ELSE [obj EXCEPT !.rv = c.rv + 1],
                 c, EmptyMap)
    /\ bgChannelsForRules' = EmptyMap
    /\ ev' = NoEv
    /\ UNCHANGED <<arVars, spec, signals, store, matIn, matOut>>

NextRestart ==
    \/ Next
    \/ Restart

SpecRestart == Init /\ [][NextRestart]_vars

\* ------------------------------------------- progress under fair redelivery
\* The reconciliations of a group snapshot that is not deleted, with a valid
\* selector (handleInitial, lines 250-262), claims that resolve, named rules
\* that exist, hooks that succeed and a driver whose calls return a non-empty
\* response without error.  Updates and re-fetches of the resource may fail.
GoodResponse(r) == ~r.err /\ Len(r.snapshots) > 0

GoodHooks == {h \in HookOutcomes : h.ok}

\* No create or delete call of a materialization fails for a reason of the
\* API server; what CreateSnapshot returns beside an AlreadyExists error is
\* left open.
NoFaultOracles == {o \in ReconcileOracles : o.fail = "none"}

InitProgress ==
    /\ Init
    /\ ~spec.hasExpr /\ spec.hasLabels

ProgressInitial ==
    /\ Delivered({"Initial", "PreChecks"})
    /\ InitialStep(TRUE, TRUE, TRUE)

ProgressPreSnap ==
    /\ Delivered({"PreSnapshot"})
    /\ \E refetchOk \in BOOLEAN, hook \in GoodHooks : PreSnapStep(TRUE, refetchOk, hook)

\* handleSnap with any response of such a driver; the oracle matters only when
\* every volume is Ready and the objects are materialized.
ProgressSnap ==
    /\ Delivered({"Snapshot"})
    /\ \E resp \in DriverResponses, orc \in NoFaultOracles :
          /\ GoodResponse(resp)
          /\ SnapStep(resp, orc)

ProgressPostSnap ==
    /\ Delivered({"PostSnapshot"})
    /\ \E refetchOk \in BOOLEAN, hook \in {h \in [ok : BOOLEAN, writes : BOOLEAN] : h.ok} :
          PostSnapStep(TRUE, refetchOk, hook)

NextProgress ==
    \/ ReconcileAddFinalizer
    \/ HandleStale
    \/ ProgressInitial
    \/ ProgressPreSnap
    \/ ProgressSnap
    \/ ProgressPostSnap
    \/ HandleFinal
    \/ CacheSync

\* Reconcile, lines 98-120, returns the error delay or the resync delay for
\* every object that exists, so the resource is delivered again and again and
\* the informer cache catches up with the server.  Redelivery is fair when a
\* reconciliation that can run to its end without an error infinitely often
\* does so infinitely often; the driver settles on reporting the volumes
\* Ready, or on reporting one in Error.
FairRedelivery ==
    /\ WF_vars(CacheSync)
    /\ SF_vars(ReconcileAddFinalizer /\ ~ev'.err)
    /\ SF_vars(ProgressInitial /\ ~ev'.err)
    /\ SF_vars(ProgressPreSnap /\ ~ev'.err)
    /\ SF_vars(ProgressPostSnap /\ ~ev'.err)
    /\ \/ SF_vars(ProgressSnap /\ ev'.resp = "done" /\ ~ev'.err)
       \/ SF_vars(ProgressSnap /\ ev'.resp = "failed" /\ ~ev'.err)

SpecProgress == InitProgress /\ [][NextProgress]_vars /\ FairRedelivery

\* ============================================== ApplicationRestore controller
\* (pkg/applicationmanager/controllers/applicationrestore.go)
\* No GroupVolumeSnapshot exists (the runs of the restore controller).
NoGroupSnapshot ==
    /\ spec = [hasExpr |-> FALSE, hasLabels |-> TRUE, preRule |-> FALSE,
               postRule |-> FALSE, maxRetries |-> 0]
    /\ obj = Gone
    /\ cache = Gone
    /\ minResourceVersions = EmptyMap
    /\ bgChannelsForRules = EmptyMap
    /\ signals = <<>>
    /\ store = EmptyStore
    /\ ev = NoEv
    /\ matIn = <<>>
    /\ matOut = <<>>

\* The orders in which a range over a Go map keyed by the drivers S may
\* visit them.
Orders(S) ==
    {o \in [1..Cardinality(S) -> S] :
        \A i, j \in 1..Cardinality(S) : i # j => o[i] # o[j]}

getDriversForRestore(r) == {r.volumes[i].driver : i \in 1..Len(r.volumes)}

\* TotalSize of the volume a driver restores, as the driver reports it: the
\* model gives the volume of driver d the size d.
VolumeSize(d) == d

\* Lines 544-546: the sum of TotalSize over the volume records.
RECURSIVE SumSizes(_)
SumSizes(infos) ==
    IF Len(infos) = 0 THEN 0 ELSE infos[1].size + SumSizes(Tail(infos))

\* Status.Volumes is read back only through getDriversForRestore, which
\* forgets the order of the list: the model keeps the list ordered by driver.
ByDriver(infos) == SortSeq(infos, LAMBDA a, b : a.driver < b.driver)

\* The progress of one call of a stage handler on the in-memory copy mem
\* against the persisted object srv: whether it has returned (ret) and with
\* an error (err), and what it did on the way.
NewRun(mem, srv) ==
    [mem |-> mem, srv |-> srv, ret |-> FALSE, err |-> FALSE, started |-> <<>>,
     startErr |-> FALSE, polled |-> <<>>, inProgress |-> FALSE, apps |-> FALSE,
     applied |-> FALSE, event |-> FALSE, writes |-> 0, payload |-> FALSE,
     trail |-> <<>>]

\* a.client.Update(restore): rejected unless the copy carries the persisted
\* resource version; on success the copy takes the new version.  Every
\* caller returns the error of a failed Update.
ClientUpdate(rs, apiOk) ==
    IF apiOk /\ rs.srv.exists /\ rs.mem.rv = rs.srv.rv
    THEN [rs EXCEPT !.srv = [rs.mem EXCEPT !.rv = rs.srv.rv + 1],
                    !.mem.rv = rs.srv.rv + 1, !.writes = @ + 1,
                    !.trail = Append(@, <<rs.mem.stage, rs.mem.status>>)]
    ELSE [rs EXCEPT !.ret = TRUE, !.err = TRUE]

\* Lines 372-439: the loop over the drivers of the backup's volumes.  f names
\* the call that fails: volume.Get ("get"), the pre-restore resources ("pre")
\* or StartRestore ("start") of the driver visited at position f.at.
RECURSIVE startLoop(_, _, _, _)
startLoop(rs, order, k, f) ==
    IF k > Len(order) THEN rs
    ELSE IF f.at = k /\ f.kind \in {"get", "pre"}
    THEN [rs EXCEPT !.ret = TRUE, !.err = TRUE]
    ELSE IF f.at = k /\ f.kind = "start"
    THEN LET failed == [rs EXCEPT !.started = Append(@, order[k]), !.startErr = TRUE,
                                  !.payload = TRUE,
                                  !.event = TRUE, !.mem.status = "Failed",
                                  !.mem.stage = "Final", !.mem.reason = StartReason,
                                  !.mem.volumes = ByDriver(@)]
         IN [ClientUpdate(failed, f.updOk) EXCEPT !.ret = TRUE]
    ELSE startLoop([rs EXCEPT !.started = Append(@, order[k]), !.payload = TRUE,
                              !.mem.volumes = Append(@, [driver |-> order[k],
                                                         status |-> "InProgress",
                                                         reason |-> NoReason,
                                                         size |-> VolumeSize(order[k])])],
                   order, k + 1, f)

StartFaults(n) ==
    {[kind |-> k, at |-> 0, updOk |-> TRUE] : k \in {"none", "backup", "update"}}
    \cup [kind : {"get", "pre"}, at : 1..n, updOk : {TRUE}]
    \cup [kind : {"start"}, at : 1..n, updOk : BOOLEAN]

\* restoreVolumes, lines 332-463: start the volume restores when the copy
\* records no volume yet.
startPhase(rs, order, f) ==
    LET r1 == [rs EXCEPT !.mem.stage = "Volumes"] IN
    IF Len(r1.mem.volumes) # 0 THEN r1
    ELSE IF f.kind = "backup" THEN [r1 EXCEPT !.ret = TRUE, !.err = TRUE]
    ELSE LET l == startLoop(r1, order, 1, f) IN
         IF l.ret THEN l
         ELSE ClientUpdate([l EXCEPT !.mem.status = "InProgress",
                                     !.mem.volumes = ByDriver(@)], f.kind # "update")

\* Lines 493-513: the evaluation of the polled statuses, in list order.
RECURSIVE evalLoop(_, _, _)
evalLoop(rs, infos, i) ==
    IF i > Len(infos) THEN rs
    ELSE IF infos[i].status \in {"InProgress", "Initial", "Pending"}
    THEN evalLoop([rs EXCEPT !.inProgress = TRUE], infos, i + 1)
    ELSE IF infos[i].status = "Failed"
    THEN [rs EXCEPT !.event = TRUE, !.mem.stage = "Final", !.mem.status = "Failed",
                    !.mem.reason = infos[i].reason]
    ELSE evalLoop(rs, infos, i + 1)

\* restoreVolumes, lines 465-519: poll the drivers of the recorded volumes in
\* the order the map gives them, store the statuses, evaluate them.  pf names
\* the call that fails: volume.Get, GetRestoreStatus or the Update.
pollPhase(rs, order, pf, statuses) ==
    IF Len(rs.mem.volumes) = 0 THEN rs
    ELSE IF pf \in {"get", "status"} THEN [rs EXCEPT !.ret = TRUE, !.err = TRUE]
    ELSE LET infos == [i \in 1..Len(order) |->
                          [driver |-> order[i], status |-> statuses[order[i]],
                           reason |-> IF statuses[order[i]] = "Failed"
                                      THEN VolumeReason(order[i]) ELSE NoReason,
                           size |-> VolumeSize(order[i])]]
             u == ClientUpdate([rs EXCEPT !.mem.volumes = ByDriver(infos), !.polled = infos],
                               pf # "update")
         IN IF u.ret THEN u
            ELSE LET e == evalLoop(u, infos, 1) IN
                 IF e.inProgress THEN [e EXCEPT !.ret = TRUE] ELSE e

\* Faulty variant of restoreResources: when applying the manifests fails the
\* restore is sent back to the Volumes stage.
restoreResourcesBackToVolumes(rs, af) ==
    LET r == [rs EXCEPT !.apps = TRUE] IN
    IF af.kind = "errEarly" THEN [r EXCEPT !.ret = TRUE, !.err = TRUE]
    ELSE IF af.kind = "errApply"
    THEN [ClientUpdate([r EXCEPT !.applied = TRUE, !.payload = TRUE,
                                 !.mem.stage = "Volumes"], TRUE)
             EXCEPT !.ret = TRUE, !.err = TRUE]
    ELSE ClientUpdate([r EXCEPT !.applied = TRUE, !.payload = TRUE, !.mem.stage = "Final",
                                !.mem.status = IF af.partial THEN "PartialSuccess"
                                               ELSE "Successful",
                                !.mem.reason = DoneReason(af.partial)],
                      af.kind # "updateRes")

\* restoreResources: the backup is read and its resources downloaded
\* ("errEarly" when that fails), the manifests are applied ("errApply" when
\* that or the CSI bookkeeping fails), then Final is persisted.
restoreResources(rs, af) ==
    LET r == [rs EXCEPT !.apps = TRUE] IN
    IF af.kind = "errEarly" THEN [r EXCEPT !.ret = TRUE, !.err = TRUE]
    ELSE IF af.kind = "errApply"
    THEN [r EXCEPT !.applied = TRUE, !.payload = TRUE, !.ret = TRUE, !.err = TRUE]
    ELSE ClientUpdate([r EXCEPT !.applied = TRUE, !.payload = TRUE, !.mem.stage = "Final",
                                !.mem.status = IF af.partial THEN "PartialSuccess"
                                               ELSE "Successful",
                                !.mem.reason = DoneReason(af.partial)],
                      af.kind # "updateRes")

\* Faulty variant of restoreTail: the resources are left to the next
\* reconciliation once stage Applications is persisted.
restoreTailStops(rs, af) ==
    IF rs.mem.status # "Failed"
    THEN [ClientUpdate([rs EXCEPT !.mem.stage = "Applications",
                                  !.mem.status = "InProgress",
                                  !.mem.reason = AppsReason],
                       af.kind # "update3") EXCEPT !.ret = TRUE]
    ELSE [ClientUpdate(rs, af.kind # "update5") EXCEPT !.ret = TRUE]

\* restoreVolumes, lines 526-553: move on to the resources unless the restore
\* has failed, then add the volumes' sizes to TotalSize and the last Update.
restoreTail(rs, af) ==
    LET a == IF rs.mem.status # "Failed"
             THEN LET u == ClientUpdate([rs EXCEPT !.mem.stage = "Applications",
                                                   !.mem.status = "InProgress",
                                                   !.mem.reason = AppsReason],
                                        af.kind # "update3")
                  IN IF u.ret THEN u ELSE restoreResources(u, af)
             ELSE rs
    IN IF a.ret THEN a
       ELSE [ClientUpdate([a EXCEPT !.mem.totalSize = @ + SumSizes(a.mem.volumes)],
                          af.kind # "update5") EXCEPT !.ret = TRUE]

TailFaults(failed) ==
    IF failed THEN [kind : {"none", "update5"}, partial : {FALSE}]
    ELSE [kind : {"none", "update5", "updateRes"}, partial : BOOLEAN]
         \cup [kind : {"update3", "errEarly", "errApply"}, partial : {FALSE}]

\* cleanupRestore: CancelRestore on the drivers of the recorded volumes in
\* map order; cf names the call that fails.  Returns the drivers CancelRestore
\* was called on and whether an error was returned.
cleanupRestore(order, cf) ==
    IF cf.kind = "none" THEN [cancelled |-> order, err |-> FALSE]
    ELSE [cancelled |-> SubSeq(order, 1, IF cf.kind = "cancel" THEN cf.at ELSE cf.at - 1),
          err |-> TRUE]

CleanupFaults(n) ==
    {[kind |-> "none", at |-> 0]} \cup [kind : {"get", "cancel"}, at : 1..n]

\* ---------------------------------------------------- Reconcile and handle
\* Resource versions are only compared for equality by the API server: the
\* model keeps the cached copy at version 1 and a newer persisted copy at 2.
Rel(srv) ==
    IF srv.exists /\ srv.rv > restoreCache.rv
    THEN [srv EXCEPT !.rv = restoreCache.rv + 1] ELSE srv

RestoreDelivered(stages) ==
    /\ restoreCache.exists /\ restoreCache.finalizer /\ ~restoreCache.deleting
    /\ restoreCache.stage \in stages

\* --------------------------------------------------- the namespace gate
\* Faulty variant of namespaceRestoreAllowed: every mapping is allowed.
namespaceRestoreAllowedAny(c) == TRUE

\* A restore outside the admin namespace may only target its own namespace.
namespaceRestoreAllowed(c) ==
    c.admin \/ \A ns \in c.mapping : ns = RestoreNamespace

\* What a run of the gate did: whether it returned an error or panicked, the
\* namespaces it created and updated, the namespaces that exist afterwards,
\* whether it read the backup object and the backup's payload, and whether
\* one of its API calls failed for a reason of the API's own (fault).
GatePassed(c) ==
    [err |-> FALSE, panic |-> FALSE, created |-> <<>>, updated |-> <<>>,
     existing |-> c.existing, backupRead |-> FALSE, payload |-> FALSE,
     fault |-> FALSE]

\* createNamespaces, lines 126-168: the backup captured namespace manifests.
\* Every captured namespace with a mapping is created under its destination
\* name; one that exists already is updated.  gf names the call that fails.
RECURSIVE capturedLoop(_, _, _, _)
capturedLoop(g, order, k, gf) ==
    IF k > Len(order) THEN g
    ELSE IF order[k] \in g.existing
    THEN IF gf.kind = "update" /\ gf.at = k THEN [g EXCEPT !.err = TRUE, !.fault = TRUE]
         ELSE capturedLoop([g EXCEPT !.updated = Append(@, order[k])], order, k + 1, gf)
    ELSE IF gf.kind = "create" /\ gf.at = k THEN [g EXCEPT !.err = TRUE, !.fault = TRUE]
    ELSE capturedLoop([g EXCEPT !.created = Append(@, order[k]),
                                !.existing = @ \cup {order[k]}], order, k + 1, gf)

\* createNamespaces, lines 169-185: no manifest was captured.  GetNamespace
\* of each destination; when it is not found, the namespace is created from
\* the object the failed GetNamespace returned (nil: a nil dereference; empty:
\* a namespace without a name, which the API server rejects or, gf.lazy =
\* "nameless", accepts), and the NotFound error is returned in any case.
RECURSIVE lazyLoop(_, _, _, _)
lazyLoop(g, order, k, gf) ==
    IF k > Len(order) THEN g
    ELSE IF gf.kind = "get" /\ gf.at = k THEN [g EXCEPT !.err = TRUE, !.fault = TRUE]
    ELSE IF order[k] \in g.existing THEN lazyLoop(g, order, k + 1, gf)
    ELSE IF gf.lazy = "nil" THEN [g EXCEPT !.err = TRUE, !.panic = TRUE]
    ELSE IF gf.lazy = "nameless" /\ NoName \notin g.existing
    THEN [g EXCEPT !.err = TRUE, !.created = Append(@, NoName),
                   !.existing = @ \cup {NoName}]
    ELSE [g EXCEPT !.err = TRUE]

createNamespaces(c, order, gf) ==
    IF gf.kind = "download"
    THEN [GatePassed(c) EXCEPT !.err = TRUE, !.fault = TRUE, !.backupRead = TRUE]
    ELSE LET g == [GatePassed(c) EXCEPT !.backupRead = TRUE, !.payload = TRUE] IN
         IF c.captured THEN capturedLoop(g, order, 1, gf)
         ELSE lazyLoop(g, order, 1, gf)

verifyNamespaces(c, order, gf) ==
    IF ~namespaceRestoreAllowed(c) THEN [GatePassed(c) EXCEPT !.err = TRUE]
    ELSE IF gf.kind = "backup" THEN [GatePassed(c) EXCEPT !.err = TRUE, !.fault = TRUE]
    ELSE createNamespaces(c, order, gf)

\* handle, lines 236-254: setDefaults, then verifyNamespaces.
Gate(c, order, gf) ==
    IF gf.kind = "defaults" THEN [GatePassed(c) EXCEPT !.err = TRUE, !.fault = TRUE]
    ELSE verifyNamespaces(c, order, gf)

GateFaults(n) ==
    [kind : {"none"}, at : {0}, lazy : {"nil", "rejected", "nameless"}]
    \cup [kind : {"defaults", "backup", "download"}, at : {0}, lazy : {"rejected"}]
    \cup [kind : {"get", "create", "update"}, at : 1..n, lazy : {"rejected"}]

\* The outcomes the gate can have for the restore's surroundings.
GateRuns ==
    {Gate(cluster, o, gf) : o \in Orders(cluster.mapping),
                            gf \in GateFaults(Cardinality(cluster.mapping))}

GateEffects(g, r) ==
    [r EXCEPT !.nsCreated = g.created, !.nsUpdated = g.updated, !.gateFault = g.fault,
              !.backupRead = g.backupRead, !.payload = g.payload \/ r.payload]

\* handle, lines 256-290, after the gate g passed and a stage handler
\* returned: its error is logged with a warning event and nil is returned
\* to Reconcile.
RestoreFinish(rs, handler, g) ==
    /\ restore' = Rel(rs.srv)
    /\ cluster' = [cluster EXCEPT !.existing = g.existing]
    /\ rev' = GateEffects(g,
                 [NoRev EXCEPT !.op = "handle", !.handler = handler,
                               !.started = rs.started, !.startErr = rs.startErr,
                               !.polled = rs.polled, !.apps = rs.apps,
                               !.applied = rs.applied, !.err = rs.err,
                               !.event = rs.event \/ rs.err, !.writes = rs.writes,
                               !.payload = rs.payload, !.trail = rs.trail,
                               !.result = "requeue"])
    /\ rhist' = [startErr |-> rhist.startErr \/ rs.startErr,
                 failedPolled |-> rhist.failedPolled
                                  \/ \E i \in 1..Len(rs.polled) :
                                        rs.polled[i].status = "Failed"]
    /\ UNCHANGED <<backup, restoreCache>>

RestoreNotFound ==
    /\ ~restoreCache.exists
    /\ rev' = [NoRev EXCEPT !.op = "notFound", !.result = "done"]
    /\ UNCHANGED <<backup, restore, restoreCache, rhist, cluster>>
    /\ UNCHANGED gsVars

\* Reconcile, lines 206-209: no finalizer yet: set it, Update, requeue.
RestoreAddFinalizer ==
    /\ restoreCache.exists /\ ~restoreCache.finalizer
    /\ \E apiOk \in BOOLEAN :
          LET u == ClientUpdate(NewRun([restoreCache EXCEPT !.finalizer = TRUE], restore),
                                apiOk)
          IN /\ restore' = Rel(u.srv)
             /\ rev' = [NoRev EXCEPT !.op = "addFinalizer", !.err = u.err,
                                     !.writes = u.writes, !.trail = u.trail,
                                     !.result = IF u.err THEN "error" ELSE "requeueNow"]
    /\ UNCHANGED <<backup, restoreCache, rhist, cluster>>
    /\ UNCHANGED gsVars

\* handle, lines 221-233: cleanupRestore's error is logged, the finalizer is
\* removed and the Update's error returned.
RestoreDelete ==
    /\ restoreCache.exists /\ restoreCache.finalizer /\ restoreCache.deleting
    /\ \E order \in Orders(getDriversForRestore(restoreCache)), apiOk \in BOOLEAN :
       \E cf \in CleanupFaults(Len(order)) :
          LET c == cleanupRestore(order, cf)
              u == ClientUpdate(NewRun([restoreCache EXCEPT !.finalizer = FALSE], restore),
                                apiOk)
          IN /\ restore' = IF u.err THEN restore ELSE GoneRestore
             /\ rev' = [NoRev EXCEPT !.op = "delete", !.cancelled = c.cancelled,
                                     !.cleanupErr = c.err, !.err = u.err,
                                     !.writes = u.writes, !.trail = u.trail,
                                     !.result = IF u.err THEN "error" ELSE "requeue"]
    /\ UNCHANGED <<backup, restoreCache, rhist, cluster>>
    /\ UNCHANGED gsVars

\* handle, lines 236-254: setDefaults or verifyNamespaces fails: a warning
\* event, and nil is returned, whatever the stage.
RestoreGateFails ==
    /\ RestoreDelivered({"Initial", "Volumes", "Applications", "Final"})
    /\ \E g \in GateRuns :
          /\ g.err
          /\ cluster' = [cluster EXCEPT !.existing = g.existing]
          /\ rev' = GateEffects(g,
                       [NoRev EXCEPT !.op = "handle", !.handler = "gate", !.err = TRUE,
                                     !.event = ~g.panic,
                                     !.result = IF g.panic THEN "panic" ELSE "requeue"])
    /\ UNCHANGED <<backup, restore, restoreCache, rhist>>
    /\ UNCHANGED gsVars

\* handle, lines 256-270: stage Initial falls through to Volumes.
RestoreVolumes ==
    /\ RestoreDelivered({"Initial", "Volumes"})
    /\ \E g \in GateRuns :
       /\ ~g.err
       /\ \E o1 \in Orders(IF Len(restoreCache.volumes) = 0 THEN backup ELSE {}) :
          \E f \in IF Len(restoreCache.volumes) = 0 THEN StartFaults(Len(o1))
                   ELSE {[kind |-> "none", at |-> 0, updOk |-> TRUE]} :
             LET a == startPhase(NewRun(restoreCache, restore), o1, f) IN
             IF a.ret THEN RestoreFinish(a, "restoreVolumes", g)
             ELSE \E o2 \in Orders(getDriversForRestore(a.mem)) :
                  \E pf \in IF Len(a.mem.volumes) = 0 THEN {"none"}
                            ELSE {"none", "get", "status", "update"} :
                  \E st \in [getDriversForRestore(a.mem) -> VolumeStatuses] :
                     LET b == pollPhase(a, o2, pf, st) IN
                     IF b.ret THEN RestoreFinish(b, "restoreVolumes", g)
                     ELSE \E af \in TailFaults(b.mem.status = "Failed") :
                             RestoreFinish(restoreTail(b, af), "restoreVolumes", g)
    /\ UNCHANGED gsVars

\* handle, lines 271-281.
RestoreApplications ==
    /\ RestoreDelivered({"Applications"})
    /\ \E g \in GateRuns :
       /\ ~g.err
       /\ \E af \in [kind : {"none", "updateRes"}, partial : BOOLEAN]
                    \cup [kind : {"errEarly", "errApply"}, partial : {FALSE}] :
             RestoreFinish(restoreResources(NewRun(restoreCache, restore), af),
                           "restoreResources", g)
    /\ UNCHANGED gsVars

\* handle, lines 283-285: the gate has run, the stage does nothing.
RestoreFinal ==
    /\ RestoreDelivered({"Final"})
    /\ \E g \in GateRuns :
          /\ ~g.err
          /\ cluster' = [cluster EXCEPT !.existing = g.existing]
          /\ rev' = GateEffects(g, [NoRev EXCEPT !.op = "handle", !.handler = "final",
                                                 !.result = "requeue"])
    /\ UNCHANGED <<backup, restore, restoreCache, rhist>>
    /\ UNCHANGED gsVars

\* The informer cache catches up with the API server.
RestoreCacheSync ==
    /\ restoreCache # restore
    /\ restoreCache' = IF restore.exists THEN [restore EXCEPT !.rv = 1] ELSE GoneRestore
    /\ restore' = restoreCache'
    /\ rev' = NoRev
    /\ UNCHANGED <<backup, rhist, cluster>>
    /\ UNCHANGED gsVars

\* The user deletes the restore.
RestoreUserDelete ==
    /\ restore.exists /\ ~restore.deleting
    /\ restore' = IF restore.finalizer
                  THEN Rel([restore EXCEPT !.deleting = TRUE, !.rv = @ + 1])
                  ELSE GoneRestore
    /\ rev' = NoRev
    /\ UNCHANGED <<backup, restoreCache, rhist, cluster>>
    /\ UNCHANGED gsVars

\* A restore as the user created it, of a backup whose volumes name some of
\* the drivers (or that has no volume); it targets its own namespace, which
\* exists, and the backup captured no namespace manifest.
InitRestore ==
    /\ NoGroupSnapshot
    /\ backup \in SUBSET Drivers
    /\ restore = NewRestore
    /\ restoreCache = restore
    /\ rev = NoRev
    /\ rhist = NoHist
    /\ cluster = HomeCluster

NextRestore ==
    \/ RestoreNotFound
    \/ RestoreAddFinalizer
    \/ RestoreDelete
    \/ RestoreGateFails
    \/ RestoreVolumes
    \/ RestoreApplications
    \/ RestoreFinal
    \/ RestoreCacheSync
    \/ RestoreUserDelete

SpecRestore == InitRestore /\ [][NextRestore]_vars

\* ---------------------------------------------- the two controllers together
\* The manager runs both controllers; one resource exists, a group snapshot
\* or a restore.
InitControllers ==
    \/ Init
    \/ InitRestore

NextControllers ==
    \/ Next
    \/ NextRestore

SpecControllers == InitControllers /\ [][NextControllers]_vars

\* The restores of a backup with at most one volume driver in every
\* surrounding: inside or outside the admin namespace, any mapping, with or
\* without captured namespace manifests, any of the destinations existing.
InitGate ==
    /\ NoGroupSnapshot
    /\ backup \in {{}} \cup {{d} : d \in Drivers}
    /\ restore = NewRestore
    /\ restoreCache = restore
    /\ rev = NoRev
    /\ rhist = NoHist
    /\ cluster \in [admin : BOOLEAN, mapping : SUBSET Namespaces \ {{}},
                    captured : BOOLEAN, existing : SUBSET Namespaces]

SpecGate == InitGate /\ [][NextRestore]_vars

\* ------------------------------------------- the resource-status table
\* The objects of a backup as the API server names them (the core group is
\* the empty group), and the objects addCSIVolumeResources records, which it
\* puts in group "core" (lines 1082-1086 and 1110-1114).
BackupObjects ==
    [group : {"", "apps"}, version : {"v1"}, kind : {"ConfigMap", "PersistentVolume"},
     namespace : {"ns1"}, name : {"a"}]
CSIObjects ==
    [group : {"core"}, version : {"v1"}, kind : {"PersistentVolume"},
     namespace : {"ns1"}, name : {"a"}]
ResourceStatuses == {"Successful", "Retained", "Failed"}

ApplyFailedReason == <<"Error applying resource">>
RetainedReason ==
    <<"Resource restore skipped as it was already present and ReplacePolicy is set to Retain">>
RestoredReason == <<"Resource restored successfully">>

\* Lines 718-722: the record the loop of updateResourceStatus takes for the
\* object.
SameResource(resource, object) ==
    /\ resource.name = object.name
    /\ resource.namespace = object.namespace
    /\ (resource.group = object.group \/ (resource.group = "core" /\ object.group = ""))
    /\ resource.version = object.version
    /\ resource.kind = object.kind

updateResourceStatus(resources, object, status, reason) ==
    LET hits == {i \in 1..Len(resources) : SameResource(resources[i], object)} IN
    IF hits # {}
    THEN LET i == CHOOSE k \in hits : \A l \in hits : k <= l IN
         [resources EXCEPT ![i].status = status, ![i].reason = reason]
    ELSE Append(resources,
                [group |-> object.group, version |-> object.version, kind |-> object.kind,
                 namespace |-> object.namespace, name |-> object.name,
                 status |-> status, reason |-> reason])

\* What ApplyResource returns for an object: nil, AlreadyExists, another error.
ApplyOutcomes == {"ok", "exists", "error"}
ReplacePolicies == {"Retain", "Delete"}

\* Faulty variant of applyLoop: an object that exists already ends the loop.
RECURSIVE applyLoopStops(_, _, _, _, _)
applyLoopStops(resources, objects, outcomes, policy, k) ==
    IF k > Len(objects) THEN [resources |-> resources, applied |-> objects]
    ELSE IF outcomes[k] = "exists"
    THEN [resources |-> updateResourceStatus(resources, objects[k],
                           IF policy = "Retain" THEN "Retained" ELSE "Failed",
                           IF policy = "Retain" THEN RetainedReason ELSE ApplyFailedReason),
          applied |-> SubSeq(objects, 1, k)]
    ELSE applyLoopStops(
            IF outcomes[k] = "error"
            THEN updateResourceStatus(resources, objects[k], "Failed", ApplyFailedReason)
            ELSE updateResourceStatus(resources, objects[k], "Successful", RestoredReason),
            objects, outcomes, policy, k + 1)

\* applyResources, lines 957-1009: every object is applied and its record
\* set from the outcome and the replace policy.
RECURSIVE applyLoop(_, _, _, _, _)
applyLoop(resources, objects, outcomes, policy, k) ==
    IF k > Len(objects) THEN [resources |-> resources, applied |-> objects]
    ELSE LET retained == outcomes[k] = "exists" /\ policy = "Retain"
             err == outcomes[k] # "ok" /\ ~retained
         IN applyLoop(
               IF err
               THEN updateResourceStatus(resources, objects[k], "Failed", ApplyFailedReason)
               ELSE IF retained
               THEN updateResourceStatus(resources, objects[k], "Retained", RetainedReason)
               ELSE updateResourceStatus(resources, objects[k], "Successful", RestoredReason),
               objects, outcomes, policy, k + 1)

\* Faulty variant of applyResources, with the loop that stops.
applyResourcesStops(resources, objects, outcomes, policy, fault) ==
    IF fault = "prepare" \/ (fault = "delete" /\ policy = "Delete")
    THEN [resources |-> resources, applied |-> <<>>, err |-> TRUE]
    ELSE LET l == applyLoopStops(resources, objects, outcomes, policy, 1) IN
         [resources |-> l.resources, applied |-> l.applied, err |-> FALSE]

\* applyResources: fault "prepare" is an error of getPVNameMappings,
\* PrepareResourceForApply or removeCSIVolumesBeforeApply, "delete" one of
\* DeleteResources, which is called under policy Delete only.
applyResources(resources, objects, outcomes, policy, fault) ==
    IF fault = "prepare" \/ (fault = "delete" /\ policy = "Delete")
    THEN [resources |-> resources, applied |-> <<>>, err |-> TRUE]
    ELSE LET l == applyLoop(resources, objects, outcomes, policy, 1) IN
         [resources |-> l.resources, applied |-> l.applied, err |-> FALSE]

\* addCSIVolumeResources: a Successful record for each CSI object.
RECURSIVE addCSIVolumeResources(_, _, _)
addCSIVolumeResources(resources, csi, k) ==
    IF k > Len(csi) THEN resources
    ELSE addCSIVolumeResources(
            updateResourceStatus(resources, csi[k], "Successful", RestoredReason),
            csi, k + 1)

\* Faulty variant of OverallStatus: a Failed record fails the restore.
OverallStatusFails(resources) ==
    IF \E i \in 1..Len(resources) : resources[i].status = "Failed" THEN "Failed"
    ELSE IF \E i \in 1..Len(resources) : resources[i].status # "Successful"
    THEN "PartialSuccess"
    ELSE "Successful"

\* Lines 1040-1048: the overall status from the records.
OverallStatus(resources) ==
    IF \E i \in 1..Len(resources) : resources[i].status # "Successful"
    THEN "PartialSuccess"
    ELSE "Successful"

\* restoreResources on a restore in stage Applications with the records
\* in.prior: the stage, status and records of the copy when it returns,
\* whether it returned an error and whether the copy was persisted.
\* in.fault names the call that fails: "early" (the backup or its download),
\* "prepare" and "delete" (in applyResources), "csi" (a PV or PVC lookup of
\* addCSIVolumeResources) or "update" (the Update of line 1058).
restoreResourcesRun(in) ==
    LET start == [stage |-> "Applications", status |-> "InProgress",
                  resources |-> in.prior, applied |-> <<>>, err |-> TRUE,
                  persisted |-> FALSE]
    IN
    IF in.fault = "early" THEN start
    ELSE LET a == applyResources(in.prior, in.objects, in.outcomes, in.policy, in.fault) IN
         IF a.err THEN start
         ELSE LET final == [start EXCEPT !.stage = "Final",
                                         !.status = OverallStatus(a.resources),
                                         !.resources = a.resources,
                                         !.applied = a.applied]
              IN IF in.fault = "csi" THEN final
                 ELSE LET done == [final EXCEPT !.resources =
                                      addCSIVolumeResources(a.resources, in.csi, 1)]
                      IN IF in.fault = "update" THEN done
                         ELSE [done EXCEPT !.err = FALSE, !.persisted = TRUE]

ObjectLists == UNION {[1..n -> BackupObjects] : n \in 0..MaxObjects}

\* The runs of restoreResources: the backup's objects with what applying
\* each returns, the replace policy, the records of an earlier apply of the
\* first object, the CSI objects and the failing call.
ApplyInputs ==
    {[objects |-> o, outcomes |-> oc, policy |-> p, prior |-> pr, csi |-> c, fault |-> f] :
        o \in ObjectLists, oc \in UNION {[1..n -> ApplyOutcomes] : n \in 0..MaxObjects},
        p \in ReplacePolicies,
        pr \in {<<>>} \cup {updateResourceStatus(<<>>, x, "Failed", ApplyFailedReason) :
                                x \in BackupObjects},
        c \in {<<>>} \cup {<<x>> : x \in CSIObjects},
        f \in {"none", "early", "prepare", "delete", "csi", "update"}}

IdleGroupSnapshot ==
    /\ spec = [hasExpr |-> FALSE, hasLabels |-> TRUE, preRule |-> FALSE,
               postRule |-> FALSE, maxRetries |-> 0]
    /\ obj = Gone
    /\ cache = Gone
    /\ minResourceVersions = EmptyMap
    /\ bgChannelsForRules = EmptyMap
    /\ signals = <<>>
    /\ store = EmptyStore
    /\ ev = NoEv

InitApply ==
    /\ IdleGroupSnapshot
    /\ NoApplicationRestore
    /\ matIn \in {<<in>> : in \in {x \in ApplyInputs : Len(x.objects) = Len(x.outcomes)}}
    /\ matOut = <<>>

ApplyCall ==
    /\ Len(matOut) = 0
    /\ matOut' = <<restoreResourcesRun(matIn[1])>>
    /\ UNCHANGED <<arVars, spec, obj, cache, minResourceVersions, bgChannelsForRules,
                   signals, store, ev, matIn>>

NextApply ==
    \/ ApplyCall

SpecApply == InitApply /\ [][NextApply]_vars

\* updateResourceStatus called again and again on one table: matIn holds the
\* objects of the calls made, matOut the table.
InitStatus ==
    /\ IdleGroupSnapshot
    /\ NoApplicationRestore
    /\ matIn = <<>>
    /\ matOut = <<>>

StatusCall ==
    /\ Len(matIn) < MaxStatusCalls
    /\ \E object \in BackupObjects \cup CSIObjects, status \in ResourceStatuses :
          /\ matIn' = Append(matIn, object)
          /\ matOut' = updateResourceStatus(matOut, object, status, <<status>>)
    /\ UNCHANGED <<arVars, spec, obj, cache, minResourceVersions, bgChannelsForRules,
                   signals, store, ev>>

NextStatus ==
    \/ StatusCall

SpecStatus == InitStatus /\ [][NextStatus]_vars

\* ------------------------------------- createSnapAndDataObjects on its own
\* The group snapshot's restore namespaces and the data source the driver
\* reports; every volume of the response is Ready.
MatInputs == [restoreNs : RestoreNamespaceLists, ds : DataSources]
MatSnapshots(ds) == [v \in BatchVolumes |-> Record(v, <<CondReady>>, ds)]

InitMat ==
    /\ spec = [hasExpr |-> FALSE, hasLabels |-> TRUE, preRule |-> FALSE,
               postRule |-> FALSE, maxRetries |-> 0]
    /\ matIn \in MatInputs
    /\ obj = [NewObject EXCEPT !.finalizer = TRUE, !.stage = "Snapshot",
                               !.status = "InProgress", !.restoreNs = matIn.restoreNs]
    /\ cache = obj
    /\ minResourceVersions = EmptyMap
    /\ bgChannelsForRules = EmptyMap
    /\ signals = <<>>
    /\ store = EmptyStoreOf(BatchVolumes)
    /\ ev = NoEv
    /\ matOut = <<>>
    /\ NoApplicationRestore

\* One call of createSnapAndDataObjects(groupSnap, snapshots); matOut keeps
\* what it was given, what it returned and the API calls it made.
MatCall ==
    /\ Len(matOut) < MaxCalls
    /\ \E orc \in Oracles :
          LET r == createSnapAndDataObjects(obj.restoreNs, MatSnapshots(matIn.ds),
                                            store, orc)
          IN /\ store' = [datas |-> r.datas, snaps |-> r.snaps]
             /\ matOut' = Append(matOut,
                    [in |-> matIn, orc |-> orc, before |-> store, after |-> store',
                     res |-> r.res, ops |-> r.ops, created |-> r.created,
                     updated |-> r.updated])
    /\ UNCHANGED <<arVars, spec, obj, cache, minResourceVersions, bgChannelsForRules,
                   signals, ev, matIn>>

\* The reconciliation of lines 181-193 around the call: the driver reports
\* every volume Ready, handleSnap materializes the response and handle
\* persists what handleSnap returned.  matOut holds the last call only.
MatHandleSnap ==
    /\ Delivered({"Snapshot"})
    /\ \E orc \in Oracles :
          LET resp == [err |-> FALSE, snapshots |-> MatSnapshots(matIn.ds)]
              r == handleSnap(cache, resp, store, orc)
              m == createSnapAndDataObjects(cache.restoreNs, resp.snapshots, store, orc)
              e == [Begin(cache, "handle") EXCEPT !.handler = "handleSnap",
                        !.driver = r.driver, !.resp = r.resp, !.matRes = r.matRes]
          IN /\ store' = r.store
             /\ matOut' = <<[orc |-> orc, res |-> m.res, ops |-> m.ops,
                             created |-> m.created, cause |-> m.cause,
                             revertFailed |-> m.revertFailed]>>
             /\ IF r.matRes = "panic"
                THEN /\ Commit(obj, cache, minResourceVersions)
                     /\ ev' = [e EXCEPT !.err = TRUE]
                ELSE Finish(obj, r, [e EXCEPT !.event = r.event])
    /\ UNCHANGED <<arVars, spec, bgChannelsForRules, signals, matIn>>

\* The driver reports another data source for the volumes on the next poll.
MatDriverChange ==
    /\ Len(matOut) < MaxCalls
    /\ \E ds \in DataSources \ {matIn.ds} : matIn' = [matIn EXCEPT !.ds = ds]
    /\ UNCHANGED <<arVars, spec, obj, cache, minResourceVersions, bgChannelsForRules,
                   signals, store, ev, matOut>>

NextMat ==
    \/ MatCall
    \/ MatDriverChange

SpecMat == InitMat /\ [][NextMat]_vars

\* Reconciliations of an all-Ready response, one after another, until one
\* persists the PostSnapshot stage.
NextMatSnap ==
    \/ MatHandleSnap
    \/ MatDriverChange

SpecMatSnap == InitMat /\ [][NextMatSnap]_vars

\* ------------------------------------------- upkeep of a finished group
\* A group snapshot that reached Final: Successful with one materialized
\* child per volume (some of which the user may have deleted since), or
\* Failed with the driver's records, which name no child.  matIn keeps the
\* restore namespaces the children were annotated with.
FinalNamespaceLists == RestoreNamespaceLists \cup {<<"ns1", "ns2">>}
FinalChildren == [v \in BatchVolumes |-> [Record(v, <<CondReady>>, "ds1") EXCEPT !.name = v]]
FailedRecords == [v \in BatchVolumes |-> Record(v, <<CondError>>, "ds1")]

InitFinal ==
    /\ spec = [hasExpr |-> FALSE, hasLabels |-> TRUE, preRule |-> FALSE,
               postRule |-> FALSE, maxRetries |-> 0]
    /\ matIn \in [restoreNs : FinalNamespaceLists]
    /\ \E ok \in BOOLEAN, gone \in SUBSET BatchVolumes :
          /\ obj = [NewObject EXCEPT !.finalizer = TRUE, !.stage = "Final",
                        !.status = IF ok THEN "Successful" ELSE "Failed",
                        !.vs = IF ok THEN FinalChildren ELSE FailedRecords,
                        !.restoreNs = matIn.restoreNs]
          /\ store =
                IF ok
                THEN [datas |-> [v \in BatchVolumes |-> [exists |-> TRUE, spec |-> "ds1"]],
                      snaps |-> [v \in BatchVolumes |->
                                   IF v \in gone THEN NoSnap
                                   ELSE [exists |-> TRUE, ann |-> Join(matIn.restoreNs)]]]
                ELSE EmptyStoreOf(BatchVolumes)
    /\ cache = obj
    /\ minResourceVersions = EmptyMap
    /\ bgChannelsForRules = EmptyMap
    /\ signals = <<>>
    /\ ev = NoEv
    /\ matOut = <<>>
    /\ NoApplicationRestore

\* The user edits Spec.RestoreNamespaces of the finished group snapshot (once).
UserSetRestoreNamespaces ==
    /\ CanWrite(obj) /\ ~obj.deleting
    /\ obj.restoreNs = matIn.restoreNs
    /\ \E l \in FinalNamespaceLists \ {obj.restoreNs} :
          Commit([obj EXCEPT !.restoreNs = l, !.rv = @ + 1], cache, minResourceVersions)
    /\ ev' = NoEv
    /\ UNCHANGED <<arVars, spec, bgChannelsForRules, signals, store, matIn, matOut>>

NextFinal ==
    \/ UserSetRestoreNamespaces
    \/ CacheSync
    \/ HandleFinal

\* The informer delivers every change, and the resource keeps being
\* reconciled (resync) with API calls that eventually all succeed.
SpecFinal ==
    InitFinal /\ [][NextFinal]_vars /\ WF_vars(CacheSync) /\ WF_vars(HandleFinalNoFault)

\* ------------------------------------- the record predicates on their own
\* Condition lists of up to MaxConds conditions, in the order the driver
\* reports them, and responses of up to MaxRecords records.
CondFalse == [type |-> "Ready", status |-> "False"]
CondLists == UNION {[1..n -> {CondReady, CondFalse, CondPending, CondError}] : n \in 0..MaxConds}
PredInputs ==
    {[i \in DOMAIN f |-> Record(i, f[i], "ds1")] :
        f \in UNION {[1..n -> CondLists] : n \in 0..MaxRecords}}

InitPred ==
    /\ spec = [hasExpr |-> FALSE, hasLabels |-> TRUE, preRule |-> FALSE,
               postRule |-> FALSE, maxRetries |-> 0]
    /\ matIn \in PredInputs
    /\ obj = [NewObject EXCEPT !.finalizer = TRUE, !.stage = "Snapshot",
                               !.status = "InProgress"]
    /\ cache = obj
    /\ minResourceVersions = EmptyMap
    /\ bgChannelsForRules = EmptyMap
    /\ signals = <<>>
    /\ store = EmptyStore
    /\ ev = NoEv
    /\ matOut = <<>>
    /\ NoApplicationRestore

\* The three predicates handle and handleSnap apply to a list of records.
PredCall ==
    /\ Len(matOut) = 0
    /\ matOut' = <<[in |-> matIn,
                    done |-> areAllSnapshotsDone(matIn),
                    started |-> areAllSnapshotsStarted(matIn),
                    failed |-> isAnySnapshotFailed(matIn)]>>
    /\ UNCHANGED <<arVars, spec, obj, cache, minResourceVersions, bgChannelsForRules,
                   signals, store, ev, matIn>>

NextPred ==
    \/ PredCall

SpecPred == InitPred /\ [][NextPred]_vars

\* ================================================================== claims
\* The handler the switch of lines 171-204 dispatches a stage to.
StageHandler(s) ==
    CASE s \in {"Initial", "PreChecks"} -> "handleInitial"
      [] s = "PreSnapshot" -> "handlePreSnap"
      [] s = "Snapshot" -> "handleSnap"
      [] s = "PostSnapshot" -> "handlePostSnap"
      [] s = "Final" -> "handleFinal"

\* C1: the persisted stage never moves backward in the order Initial <
\* PreChecks < PreSnapshot < Snapshot < PostSnapshot < Final; a step that stays
\* in Snapshot while resetting progress (NumRetries changes, records are
\* dropped, or the status goes back to Pending) is the retry step of
\* handleSnap on a failed response: it adds one to NumRetries and persists
\* status Pending with an empty per-volume record list.
C1_StageMonotone ==
    [][(obj.exists /\ obj'.exists) =>
          /\ StageOrd(obj'.stage) >= StageOrd(obj.stage)
          /\ (/\ obj.stage = "Snapshot" /\ obj'.stage = "Snapshot"
              /\ \/ obj'.numRetries # obj.numRetries
                 \/ Len(obj'.vs) < Len(obj.vs)
                 \/ (obj'.status = "Pending" /\ obj.status # "Pending"))
             => /\ ev'.handler = "handleSnap" /\ ev'.resp = "failed"
                /\ obj'.numRetries = obj.numRetries + 1
                /\ obj'.vs = <<>>
                /\ obj'.status = "Pending"]_vars

\* A retry step was persisted over a copy that had per-volume records.
C1_Witness ==
    /\ ev.handler = "handleSnap" /\ ev.resp = "failed" /\ ev.wrote
    /\ obj.stage = "Snapshot" /\ obj.status = "Pending" /\ obj.vs = <<>>
    /\ obj.numRetries > 0
    /\ cache.stage = "Snapshot" /\ Len(cache.vs) > 0

\* C2: a non-delete delivery of a UID with a recorded floor whose version is
\* below the floor makes handle return success with no stage handler, no
\* driver call, no hook, no event and no write; a delivery at or above the
\* floor runs the handler of the delivered copy's stage.
C2_FloorGate ==
    (ev.op \in {"stale", "handle"} /\ ev.hadFloor) =>
        IF ev.below
        THEN ev = [NoEv EXCEPT !.op = "stale", !.hadFloor = TRUE, !.below = TRUE]
        ELSE ev.op = "handle" /\ ev.handler = StageHandler(cache.stage)

\* A delivery older than the controller's last write was skipped.
C2_Witness ==
    /\ ev.op = "stale" /\ ev.hadFloor /\ ev.below
    /\ obj.exists /\ StageOrd(cache.stage) < StageOrd(obj.stage)

\* C3: a group snapshot in Initial or PreChecks whose selector has
\* matchExpressions or no matchLabels is, after one reconciliation, persisted
\* with status Failed and stage Final, and no driver call was made.
C3_InvalidSelectorFails ==
    (ev.handler = "handleInitial" /\ (spec.hasExpr \/ ~spec.hasLabels)) =>
        /\ obj.exists => (obj.status = "Failed" /\ obj.stage = "Final")
        /\ ev.driver = "none"

\* C4 (as the code has it): when the claims resolve but a named pre- or
\* post-rule does not exist, initial handling returns the lookup error and
\* writes nothing: the persisted object and the cached copy stay as they
\* were, in Initial or PreChecks, so the next delivery runs initial handling
\* and its rule lookup again.
C4_MissingRuleRetried ==
    [][(ev'.handler = "handleInitial" /\ ev'.ruleLookup = "missing") =>
          /\ ev'.err /\ ~ev'.wrote
          /\ obj' = obj /\ cache' = cache
          /\ minResourceVersions' = minResourceVersions
          /\ cache'.stage \in {"Initial", "PreChecks"}]_vars

\* Initial handling met a missing rule and the resource is still Initial.
C4_Witness ==
    /\ ev.handler = "handleInitial" /\ ev.ruleLookup = "missing"
    /\ ev.claimLookup = "found"
    /\ obj.exists /\ obj.stage = "Initial" /\ obj.status = "Initial"

\* C4 as stated: a missing named rule leaves the group snapshot recorded as
\* Failed with stage Final.
C4_MissingRuleFails ==
    (ev.handler = "handleInitial" /\ ev.ruleLookup = "missing" /\ obj.exists) =>
        (obj.status = "Failed" /\ obj.stage = "Final")

\* C5: with a valid selector whose claims cannot be resolved, the persisted
\* stage after the reconciliation is PreChecks and the persisted status is
\* Pending.
C5_PendingPersisted ==
    (ev.handler = "handleInitial" /\ ev.claimLookup = "notFound" /\ obj.exists) =>
        (obj.stage = "PreChecks" /\ obj.status = "Pending")

C7_Finalization ==
    [][(obj.exists /\ obj'.exists /\ obj.stage # "Final" /\ obj'.stage = "Final") =>
          /\ obj.stage = "PostSnapshot"
          /\ ev'.handler = "handlePostSnap" /\ ev'.wrote
          /\ obj'.status = IF obj.status = "Failed" THEN "Failed" ELSE "Successful"
          /\ (spec.postRule => ev'.postHook)]_vars

\* A Failed group snapshot with a named post-rule reached Final.
C7_Witness ==
    /\ spec.postRule /\ ev.handler = "handlePostSnap" /\ ev.postHook /\ ev.wrote
    /\ obj.exists /\ obj.stage = "Final" /\ obj.status = "Failed"

\* C8: a channel returned by a successful pre-hook execution is retained
\* under the resource UID by the reconciliation that obtained it.
C8_ChannelRetained ==
    [][(Len(signals') = Len(signals) + 1 /\ signals'[Len(signals')] = 0) =>
          /\ Has(bgChannelsForRules', UID)
          /\ bgChannelsForRules'[UID] = Len(signals')]_vars

\* C9: a second createSnapAndDataObjects with the same input, when no API
\* call fails for a reason of its own, succeeds, leaves one snapshot object
\* and one data object per volume, and deletes or re-creates nothing.
C9_Idempotent ==
    (/\ Len(matOut) = 2
     /\ matOut[1].res = "ok"
     /\ matOut[2].in = matOut[1].in
     /\ matOut[2].orc.fail = "none" /\ ~matOut[2].orc.delFails)
    => /\ matOut[2].res = "ok"
       /\ \A v \in BatchVolumes : store.datas[v].exists /\ store.snaps[v].exists
       /\ \A op \in matOut[2].ops :
             /\ op[1] \notin {"DeleteSnapshotData", "DeleteSnapshot"}
             /\ ~(op[1] \in {"CreateSnapshotData", "CreateSnapshot"} /\ op[3] = "ok")

\* C10: when creating or replacing the snapshot object of a volume fails
\* while that volume's data object exists, a delete of the data object was
\* made and a delete was attempted for every snapshot object created earlier
\* in the batch.
C10_Rollback ==
    \A k \in 1..Len(matOut) : \A v \in BatchVolumes :
        (/\ matOut[k].res # "ok"
         /\ \E r \in {"err", "AlreadyExists"} : <<"CreateSnapshot", v, r>> \in matOut[k].ops)
        => /\ \E r \in {"ok", "err"} : <<"DeleteSnapshotData", v, r>> \in matOut[k].ops
           /\ \A c \in 1..Len(matOut[k].created) :
                 \E r \in {"ok", "err"} :
                     <<"DeleteSnapshot", matOut[k].created[c], r>> \in matOut[k].ops

\* C11: when a delete of the revert fails, createSnapAndDataObjects returns
\* the error of the create or replace call that started the revert, never
\* success and never the delete's error, and the reconciliation around it
\* leaves the persisted stage, status, retry count and records as they were.
C11_CompensationNotPropagated ==
    [][(/\ ev'.handler = "handleSnap"
        /\ Len(matOut') = 1
        /\ matOut'[1].revertFailed)
       => /\ matOut'[1].res = "err"
          /\ matOut'[1].cause \in {"CreateSnapshot", "replaceSnapshot"}
          /\ ev'.err /\ ~ev'.wrote
          /\ obj'.stage = obj.stage /\ obj'.status = obj.status
          /\ obj'.numRetries = obj.numRetries /\ obj'.vs = obj.vs]_vars

\* A reconciliation whose revert failed to delete the data object and a
\* snapshot object created earlier in the batch.
C11_Witness ==
    /\ ev.handler = "handleSnap"
    /\ Len(matOut) = 1
    /\ matOut[1].revertFailed
    /\ Len(matOut[1].created) > 0
    /\ <<"DeleteSnapshot", matOut[1].created[1], "err">> \in matOut[1].ops
    /\ \E v \in BatchVolumes : <<"DeleteSnapshotData", v, "err">> \in matOut[1].ops

\* C12: areAllSnapshotsDone is true for every non-empty list in which each
\* record reports a Ready condition with status true, and false for the
\* empty list and for a list with a record without conditions.
C12_AllDone ==
    \A k \in 1..Len(matOut) :
        LET in == matOut[k].in IN
        /\ (/\ Len(in) > 0
            /\ \A i \in 1..Len(in) :
                  \E j \in 1..Len(in[i].conds) : in[i].conds[j] = CondReady)
           => matOut[k].done
        /\ (Len(in) = 0 \/ \E i \in 1..Len(in) : Len(in[i].conds) = 0)
           => ~matOut[k].done

\* C13: in stage Final, whenever some existing child snapshot object carries
\* a restore-namespaces annotation other than the comma-joined current list,
\* the reconciliations eventually leave every existing child with it.
ChildrenCurrent ==
    \A v \in DOMAIN store.snaps :
        store.snaps[v].exists => store.snaps[v].ann = Join(obj.restoreNs)

C13_FinalUpkeep == (~ChildrenCurrent) ~> ChildrenCurrent

\* C14: once the persisted stage is Final, a reconciliation other than the
\* delete leaves the persisted stage, status, retry count and records as
\* they are, makes no driver call and executes no hook.
C14_FinalAbsorbing ==
    [][(/\ obj.exists /\ obj.stage = "Final"
        /\ ev'.op \in {"handle", "stale", "addFinalizer", "notFound"})
       => /\ obj'.exists
          /\ obj'.stage = "Final" /\ obj'.status = obj.status
          /\ obj'.numRetries = obj.numRetries /\ obj'.vs = obj.vs
          /\ ev'.driver = "none" /\ ~ev'.preHook /\ ~ev'.postHook
          /\ ~ev'.wrote]_vars

\* A reconciliation of a resource persisted in Final: handleFinal ran, or a
\* delivery older than the write of Final was skipped.
C14_Witness ==
    /\ obj.exists /\ obj.stage = "Final"
    /\ \/ ev.handler = "handleFinal"
       \/ ev.op = "stale" /\ cache.stage = "PostSnapshot"

\* C15: the cleanup finalizer goes away only in a delete reconciliation whose
\* DeleteGroupSnapshot call succeeded; when the call fails the reconciliation
\* returns an error and writes nothing; and once the delete succeeded, or the
\* resource is gone, no floor entry is left for the UID.
C15_DeleteCleanup ==
    [][/\ (obj.exists /\ obj.finalizer /\ ~(obj'.exists /\ obj'.finalizer))
          => (ev'.op = "delete" /\ ev'.resp = "deleted" /\ ev'.wrote)
       /\ (ev'.op = "delete" /\ ev'.resp = "err")
          => (ev'.err /\ ~ev'.wrote /\ obj' = obj)
       /\ (ev'.op = "delete" /\ ev'.resp = "deleted")
          => ~Has(minResourceVersions', UID)
       /\ ~obj'.exists => ~Has(minResourceVersions', UID)]_vars

\* The delete succeeded for a resource that had a floor: the finalizer and
\* the resource are gone and so is the floor.
C15_Witness ==
    /\ ev.op = "delete" /\ ev.resp = "deleted" /\ ev.wrote /\ ev.hadFloor
    /\ ~obj.exists
    /\ ~Has(minResourceVersions, UID)

\* C16: the restore loses its cleanup finalizer only in a delete
\* reconciliation in which cleanupRestore returned no error, that is after
\* CancelRestore succeeded for every driver of the recorded volumes.
C16_FinalizerAfterCancel ==
    [][(restore.exists /\ restore.finalizer /\ ~(restore'.exists /\ restore'.finalizer))
       => (rev'.op = "delete" /\ ~rev'.cleanupErr)]_vars

\* C17: in the reconciliation that releases the restore, CancelRestore was
\* called on every driver named in the recorded volumes.
C17_EveryDriverCancelled ==
    [][(restore.exists /\ restore.finalizer /\ ~(restore'.exists /\ restore'.finalizer))
       => \A d \in getDriversForRestore(restore) :
             \E i \in 1..Len(rev'.cancelled) : rev'.cancelled[i] = d]_vars

\* C18: a reconciliation in which StartRestore fails persists Failed and
\* Final, and once a StartRestore call has failed no reconciliation calls
\* StartRestore again.
C18_StartFailureTerminal ==
    [][/\ rev'.startErr => (restore'.stage = "Final" /\ restore'.status = "Failed")
       /\ rhist.startErr => rev'.started = <<>>]_vars

\* C19: a reconciliation that polled a volume still in progress, and in
\* which no call failed, ends with persisted stage Volumes and neither runs
\* the resource restore nor applies a manifest.
C19_InProgressStays ==
    [][(/\ \E i \in 1..Len(rev'.polled) : rev'.polled[i].status = "InProgress"
        /\ ~rev'.err)
       => (restore'.stage = "Volumes" /\ ~rev'.apps /\ ~rev'.applied)]_vars

\* C20: a reconciliation that polled a Failed volume, and in which no call
\* failed, persists stage Final with status Failed and the reason of a
\* failed volume, and does not run the resource restore.
C20_FailedVolumeFinal ==
    [][(/\ \E i \in 1..Len(rev'.polled) : rev'.polled[i].status = "Failed"
        /\ ~rev'.err)
       => /\ restore'.stage = "Final" /\ restore'.status = "Failed"
          /\ \E i \in 1..Len(rev'.polled) :
                /\ rev'.polled[i].status = "Failed"
                /\ restore'.reason = rev'.polled[i].reason
          /\ ~rev'.apps]_vars

C30_SnapshotDriverCall ==
    [][ev'.handler = "handleSnap"
       => /\ (ev'.driver = "create") <=> (Len(cache.vs) = 0)
          /\ (ev'.driver = "status") <=> (Len(cache.vs) > 0)
          /\ ev'.resp \in {"err", "empty"}
             => /\ ev'.herr
                /\ obj'.stage = obj.stage /\ obj'.status = obj.status
                /\ obj'.numRetries = obj.numRetries /\ obj'.vs = obj.vs]_vars

\* The driver answered a status poll with no record at all.
C30_Witness ==
    /\ ev.handler = "handleSnap" /\ ev.driver = "status" /\ ev.resp = "empty"
    /\ Len(obj.vs) > 0

\* C21: a volume reconciliation in which no call failed and every polled
\* volume is Successful, or whose backup has no volume, persists stage
\* Applications with status InProgress, then runs the resource restore and
\* persists stage Final, all in that reconciliation.
C21_FallThrough ==
    [][(/\ rev'.op = "handle" /\ rev'.handler = "restoreVolumes"
        /\ ~rev'.err /\ ~rev'.startErr
        /\ \A i \in 1..Len(rev'.polled) : rev'.polled[i].status = "Successful"
        /\ rev'.polled = <<>> => backup = {})
       => /\ \E i, j \in 1..Len(rev'.trail) :
                /\ i < j
                /\ rev'.trail[i] = <<"Applications", "InProgress">>
                /\ rev'.trail[j][1] = "Final"
          /\ rev'.apps /\ rev'.applied
          /\ restore'.stage = "Final"
          /\ restore'.status \in {"Successful", "PartialSuccess"}]_vars

\* The reconciliation that started the volume restores of two drivers found
\* both Successful and finished the restore.
C21_Witness ==
    /\ rev.handler = "restoreVolumes" /\ ~rev.err
    /\ Len(rev.started) = 2 /\ Len(rev.polled) = 2
    /\ \A i \in 1..Len(rev.polled) : rev.polled[i].status = "Successful"
    /\ restore.stage = "Final" /\ restore.status = "Successful"

\* C29: a reconciliation in which the volume-restore or resource-restore
\* handler returned an error emits a warning event and makes Reconcile
\* return the error, with the error delay.
C29_RestoreErrorPropagates ==
    [][(/\ rev'.op = "handle"
        /\ rev'.handler \in {"restoreVolumes", "restoreResources"}
        /\ rev'.err)
       => (rev'.event /\ rev'.result = "error")]_vars

\* C25: a non-delete reconciliation of a restore whose persisted stage is
\* Final (and whose delivered copy is the persisted one) creates or updates
\* no namespace, calls no driver, runs no resource restore and does not write
\* the restore.
C25_FinalTerminal ==
    [][(/\ restore.exists /\ restore.stage = "Final" /\ restoreCache = restore
        /\ rev'.op = "handle")
       => /\ rev'.nsCreated = <<>> /\ rev'.nsUpdated = <<>>
          /\ cluster' = cluster
          /\ rev'.started = <<>> /\ rev'.polled = <<>> /\ rev'.cancelled = <<>>
          /\ ~rev'.apps /\ ~rev'.applied
          /\ rev'.writes = 0 /\ restore' = restore]_vars

\* C26: for a restore outside the admin namespace whose mapping has a
\* destination other than its own namespace, no step creates or updates a
\* namespace, starts or polls a volume restore, runs the resource restore or
\* changes the stage.
C26_NamespaceRestriction ==
    [][(/\ ~cluster.admin
        /\ \E ns \in cluster.mapping : ns # RestoreNamespace)
       => /\ rev'.nsCreated = <<>> /\ rev'.nsUpdated = <<>>
          /\ cluster'.existing = cluster.existing
          /\ rev'.started = <<>> /\ rev'.polled = <<>>
          /\ ~rev'.apps /\ ~rev'.applied
          /\ restore'.exists => restore'.stage = restore.stage]_vars

\* The gate refused a restore that maps into a foreign namespace, before it
\* read the backup, and the restore still is in stage Initial.
C26_Witness ==
    /\ ~cluster.admin /\ "ns2" \in cluster.mapping
    /\ rev.op = "handle" /\ rev.handler = "gate" /\ rev.err /\ rev.event
    /\ ~rev.backupRead
    /\ restore.exists /\ restore.finalizer /\ restore.stage = "Initial"

\* C27: when the backup captured no namespace manifest and the mapping is
\* allowed, a reconciliation whose gate read the backup and had no failing
\* API call leaves every destination of the mapping existing and goes on to
\* the stage handler.
C27_LazyNamespaces ==
    [][(/\ rev'.op = "handle" /\ rev'.backupRead /\ ~rev'.gateFault
        /\ ~cluster.captured)
       => /\ \A ns \in cluster.mapping : ns \in cluster'.existing
          /\ rev'.handler # "gate"
          /\ rev'.result # "panic"]_vars

\* C22: restoreResources never leaves the overall status Failed, and a run
\* that returns no error ends in stage Final with status Successful when
\* every resource record is Successful and PartialSuccess when a record is
\* Retained or Failed.
C22_ApplicationsOutcome ==
    Len(matOut) = 1 =>
        LET out == matOut[1]
            n == Len(out.resources)
        IN /\ out.status # "Failed"
           /\ ~out.err =>
                 /\ out.stage = "Final"
                 /\ out.persisted
                 /\ (\A i \in 1..n : out.resources[i].status = "Successful")
                       => out.status = "Successful"
                 /\ (\E i \in 1..n : out.resources[i].status \in {"Retained", "Failed"})
                       => out.status = "PartialSuccess"

\* A run under policy Delete in which an apply failed and one succeeded ended
\* in Final with PartialSuccess.
C22_Witness ==
    /\ Len(matOut) = 1 /\ ~matOut[1].err
    /\ matIn[1].policy = "Delete" /\ matIn[1].prior = <<>>
    /\ Len(matIn[1].objects) = 2
    /\ matIn[1].outcomes = <<"error", "ok">>
    /\ matOut[1].stage = "Final" /\ matOut[1].status = "PartialSuccess"

\* C23: the resource-status table never holds two records for one (group,
\* version, kind, namespace, name) tuple, with group "core" and the empty
\* group taken as the same group.
C23_OneRecordPerResource ==
    \A i, j \in 1..Len(matOut) :
        (/\ i < j
         /\ matOut[i].name = matOut[j].name
         /\ matOut[i].namespace = matOut[j].namespace
         /\ matOut[i].version = matOut[j].version
         /\ matOut[i].kind = matOut[j].kind)
        => (IF matOut[i].group = "core" THEN "" ELSE matOut[i].group)
           # (IF matOut[j].group = "core" THEN "" ELSE matOut[j].group)

\* C24: in a run of restoreResources in which no call but ApplyResource
\* fails, every object is applied; an object whose apply returned
\* AlreadyExists is recorded Retained under policy Retain and Failed under
\* policy Delete, the run returns no error, and when a Retained record is the
\* only kind of record that is not Successful the overall status is
\* PartialSuccess.
C24_ReplacePolicy ==
    (Len(matOut) = 1 /\ matIn[1].fault = "none") =>
        LET in == matIn[1]
            out == matOut[1]
            n == Len(in.objects)
            last(k) == \A l \in (k + 1)..n : in.objects[l] # in.objects[k]
            rec(o) == {i \in 1..Len(out.resources) :
                          /\ out.resources[i].group = o.group
                          /\ out.resources[i].version = o.version
                          /\ out.resources[i].kind = o.kind
                          /\ out.resources[i].namespace = o.namespace
                          /\ out.resources[i].name = o.name}
        IN /\ ~out.err
           /\ out.applied = in.objects
           /\ \A k \in 1..n :
                 (in.outcomes[k] = "exists" /\ last(k))
                 => /\ Cardinality(rec(in.objects[k])) = 1
                    /\ \A i \in rec(in.objects[k]) :
                          out.resources[i].status
                             = IF in.policy = "Retain" THEN "Retained" ELSE "Failed"
           /\ (/\ \E i \in 1..Len(out.resources) : out.resources[i].status = "Retained"
               /\ \A i \in 1..Len(out.resources) :
                     out.resources[i].status \in {"Retained", "Successful"})
              => out.status = "PartialSuccess"

\* Under policy Retain the first object existed already and the second was
\* applied after it: one Retained record, one Successful, PartialSuccess.
C24_Witness ==
    /\ Len(matOut) = 1 /\ matIn[1].fault = "none"
    /\ matIn[1].policy = "Retain" /\ matIn[1].prior = <<>> /\ matIn[1].csi = <<>>
    /\ matIn[1].outcomes = <<"exists", "ok">>
    /\ matIn[1].objects[1] # matIn[1].objects[2]
    /\ Len(matOut[1].resources) = 2
    /\ matOut[1].resources[1].status = "Retained"
    /\ matOut[1].resources[2].status = "Successful"
    /\ matOut[1].status = "PartialSuccess"

\* C31: the driver is called only for a delivered copy in stage Snapshot, and
\* the persisted stage reaches Snapshot only in these ways: when a pre-rule is
\* named, from PreSnapshot, by a reconciliation of handlePreSnap that executed
\* the pre-hook and got success from it (and PreSnapshot itself is entered from
\* Initial or PreChecks by handleInitial); when no pre-rule is named, from
\* Initial or PreChecks by handleInitial, PreSnapshot is never persisted and
\* no pre-hook is executed.
C31_HookOrdering ==
    [][/\ ev'.driver \in {"create", "status"}
          => (cache.stage = "Snapshot" /\ StageOrd(obj.stage) >= StageOrd("Snapshot"))
       /\ (/\ obj.exists /\ obj'.exists
           /\ StageOrd(obj.stage) < StageOrd("Snapshot")
           /\ StageOrd(obj'.stage) >= StageOrd("Snapshot"))
          => IF spec.preRule
             THEN /\ obj.stage = "PreSnapshot" /\ obj'.stage = "Snapshot"
                  /\ ev'.handler = "handlePreSnap"
                  /\ ev'.preHook /\ ~ev'.herr /\ ev'.wrote
             ELSE /\ obj.stage \in {"Initial", "PreChecks"} /\ obj'.stage = "Snapshot"
                  /\ ev'.handler = "handleInitial" /\ ev'.wrote
       /\ (obj.exists /\ obj'.exists /\ obj.stage # "PreSnapshot"
           /\ obj'.stage = "PreSnapshot")
          => (/\ spec.preRule /\ obj.stage \in {"Initial", "PreChecks"}
              /\ ev'.handler = "handleInitial")
       /\ ~spec.preRule => (~ev'.preHook /\ obj'.stage # "PreSnapshot")]_vars

\* The first CreateGroupSnapshot call of a group snapshot with a named
\* pre-rule.
C31_Witness ==
    /\ spec.preRule
    /\ ev.handler = "handleSnap" /\ ev.driver = "create"
    /\ obj.exists /\ obj.numRetries = 0

\* C32: when the floor map and the channel map may be emptied between
\* reconciliations, the persisted stage and NumRetries still never decrease,
\* NumRetries stays within MaxRetries, and a resource persisted in Final keeps
\* its stage, status and per-volume records until it is deleted.
C32_RestartSafe ==
    [][(obj.exists /\ obj'.exists) =>
          /\ StageOrd(obj'.stage) >= StageOrd(obj.stage)
          /\ obj'.numRetries >= obj.numRetries
          /\ obj'.numRetries <= spec.maxRetries
          /\ obj.stage = "Final" =>
                (obj'.status = obj.status /\ obj'.vs = obj.vs)]_vars

\* C33: while the delivered copy of a group snapshot or of a restore lacks the
\* cleanup finalizer, the only reconciliation of it is the one that sets the
\* finalizer: it runs no stage handler, hook, driver call, lookup or namespace
\* operation, raises no event, touches neither the derived objects, the
\* channels and floors nor the cluster's namespaces, changes nothing of the
\* persisted resource but the finalizer, and when its Update succeeds the
\* finalizer is persisted and an immediate requeue is requested.
C33_FinalizerFirst ==
    [][/\ (cache.exists /\ ~cache.finalizer)
          => /\ ev'.op \in {"none", "addFinalizer"}
             /\ ev'.op = "addFinalizer"
                => /\ [ev' EXCEPT !.wrote = FALSE, !.err = FALSE]
                         = [NoEv EXCEPT !.op = "addFinalizer"]
                   /\ store' = store /\ signals' = signals
                   /\ bgChannelsForRules' = bgChannelsForRules
                   /\ minResourceVersions' = minResourceVersions
                   /\ obj'.exists = obj.exists
                   /\ [obj' EXCEPT !.rv = 0, !.finalizer = FALSE]
                         = [obj EXCEPT !.rv = 0, !.finalizer = FALSE]
                   /\ ev'.wrote => (obj'.finalizer /\ ReconcileResult(ev') = "requeueNow")
       /\ (restoreCache.exists /\ ~restoreCache.finalizer)
          => /\ rev'.op \in {"none", "addFinalizer"}
             /\ rev'.op = "addFinalizer"
                => /\ [rev' EXCEPT !.err = FALSE, !.writes = 0, !.trail = <<>>,
                                   !.result = "none"]
                         = [NoRev EXCEPT !.op = "addFinalizer"]
                   /\ cluster' = cluster /\ backup' = backup
                   /\ restore'.exists = restore.exists
                   /\ [restore' EXCEPT !.rv = 0, !.finalizer = FALSE]
                         = [restore EXCEPT !.rv = 0, !.finalizer = FALSE]
                   /\ rev'.writes = 1
                      => (restore'.finalizer /\ rev'.result = "requeueNow")]_vars

\* The first reconciliation of a restore set the finalizer and nothing else.
C33_Witness ==
    /\ rev.op = "addFinalizer" /\ rev.writes = 1 /\ rev.result = "requeueNow"
    /\ restore.exists /\ restore.finalizer
    /\ restore.stage = "Initial" /\ restore.volumes = <<>>

\* C34: the persisted stage of a restore never moves backward in the order
\* Initial < Volumes < Applications < Final, neither from one reconciliation
\* to the next nor from one Update to the next inside a reconciliation, and
\* once Final is persisted with status Failed, Successful or PartialSuccess
\* the persisted stage and status stay as they are.
C34_RestoreStageMonotone ==
    [][(restore.exists /\ restore'.exists) =>
          LET path == <<<<restore.stage, restore.status>>>> \o rev'.trail
                      \o <<<<restore'.stage, restore'.status>>>>
              Terminal(p) == /\ p[1] = "Final"
                             /\ p[2] \in {"Failed", "Successful", "PartialSuccess"}
          IN \A i \in 1..(Len(path) - 1) :
                /\ RestoreStageOrd(path[i + 1][1]) >= RestoreStageOrd(path[i][1])
                /\ Terminal(path[i]) => path[i + 1] = path[i]]_vars

\* A reconciliation of a restore persisted in Final with a partial success.
C34_Witness ==
    /\ restore.exists /\ restore.stage = "Final" /\ restore.status = "PartialSuccess"
    /\ rev.op = "handle" /\ rev.handler = "final"

\* C35: NumRetries of the persisted group snapshot stays between 0 and
\* MaxRetries and never decreases; a step changes it exactly when it is a
\* Snapshot reconciliation that persisted the retry step (stage Snapshot,
\* status Pending, no per-volume records) on a failed response, and then by
\* exactly one.
C35_RetryCounter ==
    [][(obj.exists /\ obj'.exists) =>
          LET retried == /\ ev'.handler = "handleSnap" /\ ev'.resp = "failed"
                         /\ ev'.wrote
                         /\ obj'.stage = "Snapshot" /\ obj'.status = "Pending"
                         /\ obj'.vs = <<>>
          IN /\ 0 <= obj'.numRetries /\ obj'.numRetries <= spec.maxRetries
             /\ obj'.numRetries >= obj.numRetries
             /\ retried => obj'.numRetries = obj.numRetries + 1
             /\ obj'.numRetries # obj.numRetries => retried]_vars

\* The retry step that uses up a budget of two retries.
C35_Witness ==
    /\ spec.maxRetries = 2 /\ obj.exists /\ obj.numRetries = 2
    /\ ev.handler = "handleSnap" /\ ev.resp = "failed" /\ ev.wrote
    /\ obj.stage = "Snapshot" /\ obj.status = "Pending" /\ obj.vs = <<>>

\* C36: a reconciliation whose status Update succeeded leaves the floor of
\* the UID at the version that Update produced; a reconciliation without
\* such a write (a skipped delivery, a handler error, a failed Update, Final
\* upkeep, the setting of the finalizer) leaves the floor map as it was; and
\* while the entry exists the floor never decreases (the versions of the
\* model are relative to the cached copy's, so across a cache sync, where
\* the persisted version's number falls, the floor is compared after the
\* shift by the versions the cache caught up).
C36_FloorBookkeeping ==
    [][LET written == ev'.op = "handle" /\ ev'.wrote
           shift == IF obj.exists /\ obj'.exists /\ obj'.rv < obj.rv
                    THEN obj.rv - obj'.rv ELSE 0
       IN /\ written
             => /\ Has(minResourceVersions', UID)
                /\ obj'.exists /\ minResourceVersions'[UID] = obj'.rv
                /\ obj'.rv > obj.rv
          /\ (ev'.op \in {"stale", "handle", "addFinalizer", "notFound"} /\ ~written)
             => minResourceVersions' = minResourceVersions
          /\ (Has(minResourceVersions, UID) /\ Has(minResourceVersions', UID))
             => minResourceVersions'[UID] + shift >= minResourceVersions[UID]]_vars

\* A handler error in a reconciliation of a resource whose floor is the
\* version of the controller's last write.
C36_Witness ==
    /\ ev.op = "handle" /\ ev.herr /\ ev.hadFloor /\ ~ev.wrote
    /\ Has(minResourceVersions, UID)
    /\ obj.exists /\ minResourceVersions[UID] = obj.rv

\* C37: after a call of createSnapAndDataObjects that returned an error and
\* in which no delete failed, no data object and no snapshot object that the
\* call created exists.
C37_NoOrphans ==
    \A k \in 1..Len(matOut) :
        (matOut[k].res = "err" /\ ~matOut[k].orc.delFails)
        => \A v \in BatchVolumes :
              /\ <<"CreateSnapshotData", v, "ok">> \in matOut[k].ops
                 => ~matOut[k].after.datas[v].exists
              /\ <<"CreateSnapshot", v, "ok">> \in matOut[k].ops
                 => ~matOut[k].after.snaps[v].exists

\* C38: every channel a pre-hook execution has returned has been signaled or
\* is the channel registered under the resource's UID.
C38_NoLostChannel ==
    \A ch \in 1..Len(signals) :
        \/ signals[ch] >= 1
        \/ Has(bgChannelsForRules, UID) /\ bgChannelsForRules[UID] = ch

\* C39: a restore persisted in stage Final with status Successful or
\* PartialSuccess has a persisted TotalSize equal to the sum of the sizes of
\* its recorded volumes, once a reconciliation that started in the Volumes or
\* in the Applications stage has persisted Final and none of its calls failed.
C39_TotalSize ==
    (/\ restore.exists /\ restore.stage = "Final"
     /\ restore.status \in {"Successful", "PartialSuccess"}
     /\ rev.handler \in {"restoreVolumes", "restoreResources"} /\ ~rev.err)
    => restore.totalSize = SumSizes(restore.volumes)


\* C40: under fair redelivery a group snapshot with a valid selector, resolving
\* claims, existing rules, succeeding hooks and a driver that answers without
\* error and settles every volume eventually reaches stage Final with status
\* Successful or Failed.
C40_Progress ==
    <>(obj.exists /\ obj.stage = "Final" /\ obj.status \in {"Successful", "Failed"})

====
